---- MODULE Spec2Model ----
(***************************************************************************)
(* Model of the Maple West downloader: the Unit downloader (unit.py) and   *)
(* the bulk download desktop tool (main.py).                               *)
(*                                                                         *)
(* The specifications share the variables:                                 *)
(*   SpecDates    the date-range validation and the date-list builders,    *)
(*   SpecUnit     download, load and check operations on Unit instances,   *)
(*   SpecSpace    check_space,                                             *)
(*   SpecStatus   check_status,                                            *)
(*   SpecLoad     the loaders of the configuration directory,              *)
(*   SpecOrder    the row-order normalisation,                             *)
(*   SpecSort     the natural sort of combine_data,                        *)
(*   Spec         the desktop tool's start_download / cancel_download,     *)
(*   SpecCounts, SpecShade, SpecReports   the quality checker.             *)
(***************************************************************************)
EXTENDS Integers, Sequences, FiniteSets, TLC

VARIABLES
    qc,                 \* QualityChecker: the data tree, the reports, the latest call
    dq,                 \* SpecDates: one date-range query and its result
    units,              \* unit_no -> Unit instance fields (data, datatype, errors)
    failed_downloads,   \* Log.record_failed_downloads: <<unit_no, date, url>> entries
    calls,              \* history (SpecUnit): one record per _download call
    checks,             \* history (SpecUnit): one record per check_quality call
    loads,              \* history (SpecUnit): one record per load_data call
    probes,             \* history (SpecSpace, SpecStatus): one record per check_space
                        \* or check_status call
    applied,            \* load_units, _fix_order or the natural sort: input and result
    is_downloading,     \* BulkDownloadGUI.is_downloading
    temp_dirs,          \* BulkDownloadGUI.temp_dirs: the tracked directories
    download_btn,       \* state of the Start Download button
    cancel_btn,         \* whether the Cancel button is gridded
    progress_var,       \* BulkDownloadGUI.progress_var
    status_label,       \* text of the status line
    stack,              \* the handlers in progress, innermost last; each one
                        \* below the top is inside a root.update() call
    disk,               \* the temporary directories that exist
    unitdirs,           \* the <<directory, unit_no>> folders "UNIT <n>" that exist
    files,              \* the files in them
    next_dir,           \* names tempfile.mkdtemp has handed out
    downloads,          \* the archives in ~/Downloads
    click,              \* the button click the latest step dispatched, if it was one
    dialogs,            \* the messagebox calls of the latest step
    returned,           \* the latest start_download call that passed
                        \* validation and returned: what it left behind
    runs,               \* counts the start_download calls that passed validation
    budget              \* the downloads that runs yet to start may make

unitvars == <<units, failed_downloads, calls, checks, loads, probes>>
fsvars == <<disk, unitdirs, files, next_dir, downloads>>
uivars == <<download_btn, cancel_btn, progress_var, status_label>>
stepvars == <<click, dialogs>>
histvars == <<returned, runs, budget>>
guivars == <<is_downloading, temp_dirs, stack, fsvars, uivars, stepvars, histvars>>
vars == <<dq, qc, applied, unitvars, guivars>>

(***************************************************************************)
(* Bounds of the model.                                                    *)
(***************************************************************************)
FirstYear == 2023
YearSpan == 1
MaxSpanMonths == 2
MaxOps == 3

Years == FirstYear..(FirstYear + YearSpan)

(***************************************************************************)
(* Dates.  A datetime is [y, m, d]; datetime comparison is lexicographic.  *)
(***************************************************************************)
Date(y, m, d) == [y |-> y, m |-> m, d |-> d]

DateLt(a, b) ==
    \/ a.y < b.y
    \/ a.y = b.y /\ a.m < b.m
    \/ a.y = b.y /\ a.m = b.m /\ a.d < b.d

IsLeap(y) == (y % 4 = 0) /\ ((y % 100 # 0) \/ (y % 400 = 0))

\* calendar.monthrange(year, month)[1]
DaysInMonth(y, m) ==
    IF m = 2 THEN (IF IsLeap(y) THEN 29 ELSE 28)
    ELSE IF m \in {4, 6, 9, 11} THEN 30 ELSE 31

\* current += timedelta(days=1)
AddDay(dt) ==
    IF dt.d < DaysInMonth(dt.y, dt.m) THEN Date(dt.y, dt.m, dt.d + 1)
    ELSE IF dt.m < 12 THEN Date(dt.y, dt.m + 1, 1)
    ELSE Date(dt.y + 1, 1, 1)

Min(a, b) == IF a < b THEN a ELSE b

\* current += relativedelta(months=1): the day is clipped to the new month
AddMonth(dt) ==
    LET ny == IF dt.m < 12 THEN dt.y ELSE dt.y + 1
        nm == IF dt.m < 12 THEN dt.m + 1 ELSE 1
    IN  Date(ny, nm, Min(dt.d, DaysInMonth(ny, nm)))

\* start_date.replace(day=1)
ReplaceDay1(dt) == Date(dt.y, dt.m, 1)

\* The month comboboxes hold a month name; list(calendar.month_name).index(..)
\* gives 1..12 for a month name, 0 for the empty text (datetime() then raises
\* ValueError) and raises ValueError for any other text: 0 stands for both.
MonthInputs == 0..12

NoRange == [ok |-> FALSE, start |-> Date(0, 0, 0), end |-> Date(0, 0, 0)]

\* validate_date_range: (start_date, end_date), or (None, None) after an
\* error dialog.
validate_date_range(sm, sy, em, ey) ==
    IF sm = 0 \/ em = 0 THEN NoRange
    ELSE LET start_date == Date(sy, sm, 1)
             end_date == Date(ey, em, DaysInMonth(ey, em))
         IN  IF DateLt(end_date, start_date) THEN NoRange
             ELSE [ok |-> TRUE, start |-> start_date, end |-> end_date]

\* A start_download without the test of the range.
RangeNeverRejected(r) == FALSE

\* start_download's own test: not start_date or not end_date or start >= end
RangeRejected(r) == ~r.ok \/ ~DateLt(r.start, r.end)

\* _get_daily_dates: `while current < end_date` and the loop body
DailyCond(current, end_date) == DateLt(current, end_date)

DailyBody(current, dates) ==
    [dates |-> Append(dates, current), current |-> AddDay(current)]

\* _get_monthly_dates: `while current < end` and the loop body
MonthlyCond(current, end) == DateLt(current, end)

MonthlyBody(current, dates) ==
    [dates |-> Append(dates, current), current |-> AddMonth(current)]

LoopCond(data_type, current, end) ==
    IF data_type = "Minute" THEN DailyCond(current, end) ELSE MonthlyCond(current, end)

LoopBody(data_type, current, dates) ==
    IF data_type = "Minute" THEN DailyBody(current, dates) ELSE MonthlyBody(current, dates)

\* The loop variables before the first iteration: the daily builder starts at
\* start_date and runs up to end_date, the monthly one replaces both days by 1.
LoopStart(data_type, start_date, end_date) ==
    IF data_type = "Minute"
    THEN [current |-> start_date, end |-> end_date]
    ELSE [current |-> ReplaceDay1(start_date), end |-> ReplaceDay1(end_date)]

\* current_date.strftime(date_format): '%Y-%m-%d' or '%Y-%m'; the text is
\* modelled by the tuple of its numeric fields.
Strftime(data_type, dt) ==
    IF data_type = "Minute" THEN <<dt.y, dt.m, dt.d>> ELSE <<dt.y, dt.m>>

DataTypes == {"Minute", "Hour"}

\* Months from (sy, sm) to (ey, em), negative when the end is earlier.
MonthDiff(sm, sy, em, ey) == (ey * 12 + em) - (sy * 12 + sm)

(***************************************************************************)
(* Unit (unit.py).                                                         *)
(***************************************************************************)
\* google_paths: the device numbers with a Google Drive folder
google_paths ==
    [u \in {77, 78, 79, 80, 81, 82, 83, 84, 85, 86, 87,
            2804, 2806, 2808, 2810, 2812, 2814, 2816, 2818} |->
        CASE u = 77 -> "1Z1ETfHlgitFOBx8SWqYiotkezFwL2ahb"
          [] u = 78 -> "1oOKr0Kt2Jg2j_tqzv6sdRF4bEuNofxy2"
          [] u = 79 -> "1NUruYAn2kafZTrUOFeMndmKHCyXnBVFM"
          [] u = 80 -> "1Idx4pE-vBeRzFQXoBpiwRgfHbh-CZ5Go"
          [] u = 81 -> "1Y17UL5XGQPlFf361V-9FLhP-JhAuFzaI"
          [] u = 82 -> "1ud6EOvBFkXGPR8McKDEJR6Dx3y_NssiF"
          [] u = 83 -> "1O08BMUVd4CnNsYYoH5l1mRYGW97AXsA5"
          [] u = 84 -> "1UHTnt1gOF28LoF7QnS-JcQ69q20pdeDc"
          [] u = 85 -> "1j2tTzGza7hDmwGukHo1HQFTYlMGg1qmo"
          [] u = 86 -> "1pmiaLqn_M3y3Ebn3tT9LnHBvRbgHOsA6"
          [] u = 87 -> "1JPCc3CIt1R5pW61DHtC24wVslnWC8QhN"
          [] u = 2804 -> "1X8M-Ec0y-vl3CrJ9zZxuMUMYAVlMF7fJ"
          [] u = 2806 -> "1Fh7r38--RT9_J1-e4XJnzLdQkXjD0zO5"
          [] u = 2808 -> "127cFRH_0pa1eZN67dYp4H63dM4hwX_43"
          [] u = 2810 -> "1euo9FBA2qem2oaa_ze0bxudcA9ZSOSVc"
          [] u = 2812 -> "1KH_x8Sb7ix-KdBUJYvsGZDOB5Ec3oaei"
          [] u = 2814 -> "125PAJ1RCLN4IDGVUeyh-lmvXQEhY6vMH"
          [] u = 2816 -> "1uCERJeoSE2Oexa59g3Nv7SZNrzQZfHp0"
          [] u = 2818 -> "17dVMIaaF0kzZofbUA4kJAIeYbVhrlNHt"]

\* The devices of the configuration directory in the model: one with a Drive
\* folder and one (stack unit 2820) without.
ConfiguredUnits == {77, 2820}

\* The serial of a device's configuration file.
Serial(u) == <<"serial", u>>

\* `self.unit_no in google_paths`
InAllowList(unit_no) == unit_no \in DOMAIN google_paths

None == [tag |-> "None"]

\* A non-empty DataFrame: which export it holds and where it was read from.
DataFrame(unit_no, date, src) ==
    [tag |-> "df", unit |-> unit_no, date |-> date, src |-> src]

\* Unit.__init__
NewUnit == [data |-> None, datatype |-> "", errors |-> <<>>, warnings |-> <<>>]

\* The export URL, by its parts; the last one is the date.
ExportUrl(u, endpoint, date) == <<"http", u, endpoint, Serial(u), date>>

\* date = url.split('/')[-1]
UrlDate(url) == url[Len(url)]

\* What pd.read_csv(url) followed by the emptiness test and _fix_order ends in:
\*   ok             a non-empty frame
\*   bad_timestamps a non-empty frame whose first column pd.to_datetime
\*                  rejects inside _fix_order (caught there, frame kept)
\*   empty          EmptyDataError, or an empty frame (ValueError raised)
\*   parse_error    pd.errors.ParserError, UnicodeDecodeError (ValueErrors)
\*   network_error  URLError, HTTPError, any other exception
LiveOutcomes == {"ok", "bad_timestamps", "empty", "parse_error", "network_error"}

\* self.data = self._fix_order(response) is reached
LiveOk(live) == live \in {"ok", "bad_timestamps"}

\* The except branch of _fix_order: what it appends to self.errors and logs
TimestampErrors(live) ==
    IF live = "bad_timestamps" THEN << <<"Error parsing timestamps">> >> ELSE <<>>

\* `except (pd.errors.EmptyDataError, ValueError)` takes these
IsValueError(live) == live \in {"empty", "parse_error"}

\* What the Google Drive path ends in:
\*   loaded      the file was found, downloaded and is not empty
\*   not_found   the listing is empty
\*   empty_file  the downloaded file has no rows
\*   error       credentials, listing or download raised
DriveOutcomes == {"loaded", "not_found", "empty_file", "error"}

\* filename = f'{self.serial}_{date}.csv'
DriveFilename(u, date) == <<Serial(u), date>>

\* Mutant of _download: the Drive path placed where it runs after every live
\* fetch of an allow-listed device, successful or not.
DownloadDriveAlways(self, unit_no, url, live, drive) ==
    [unit |-> IF LiveOk(live)
              THEN [self EXCEPT !.data = DataFrame(unit_no, UrlDate(url), "live"),
                                !.errors = @ \o TimestampErrors(live)]
              ELSE self,
     failed |-> <<>>,
     attempts |-> IF InAllowList(unit_no)
                  THEN << [folder |-> google_paths[unit_no],
                           filename |-> DriveFilename(unit_no, UrlDate(url))] >>
                  ELSE <<>>,
     logged |-> << <<"Downloading Unit", unit_no>> >>,
     raised |-> "none"]

\* What `except Exception as backup_error` lets out of the Drive path.
DriveRaisedUncaught(drive) == IF drive = "error" THEN "Exception" ELSE "none"

\* The Drive path runs inside `try: ... except Exception as backup_error:`,
\* which logs the error: nothing is raised past it.
DriveRaised(drive) == "none"

\* The Log.write calls of the Drive path
DriveLogged(unit_no, date, drive) ==
    << <<"Attempting to download from Google Drive", DriveFilename(unit_no, date)>>,
       CASE drive = "loaded" -> <<"Successfully loaded from Google Drive">>
         [] drive = "not_found" -> <<"File not found in Google Drive folder">>
         [] drive = "empty_file" -> <<"Downloaded file from Google Drive is empty">>
         [] OTHER -> <<"Failed to download from Google Drive">> >>

\* Unit._download(url): the new Unit fields, the entries added to the
\* failed-downloads record, the Drive attempts made, the Log.write calls and
\* the exception that leaves the call, for the given outcomes of the live
\* fetch and of the Drive path.
_download(self, unit_no, url, live, drive) ==
    LET date == UrlDate(url)
        start == << <<"Downloading Unit", unit_no>> >>
    IN  IF LiveOk(live)
        THEN [unit |-> [self EXCEPT !.data = DataFrame(unit_no, date, "live"),
                                   !.errors = @ \o TimestampErrors(live)],
              failed |-> <<>>, attempts |-> <<>>,
              logged |-> start \o TimestampErrors(live),
              raised |-> "none"]
        ELSE IF IsValueError(live)
        THEN [unit |-> [self EXCEPT !.data = None,
                                   !.errors = Append(@, <<"Empty data from", url>>)],
              failed |-> << <<unit_no, date, url>> >>, attempts |-> <<>>,
              logged |-> Append(start, <<"Empty data from", url>>),
              raised |-> "none"]
        ELSE IF InAllowList(unit_no)
        THEN [unit |-> IF drive = "loaded"
                       THEN [self EXCEPT !.data = DataFrame(unit_no, date, "drive")]
                       ELSE self,
              failed |-> <<>>,
              attempts |-> << [folder |-> google_paths[unit_no],
                               filename |-> DriveFilename(unit_no, date)] >>,
              logged |-> start \o DriveLogged(unit_no, date, drive),
              raised |-> DriveRaised(drive)]
        ELSE [unit |-> self, failed |-> <<>>, attempts |-> <<>>, logged |-> start,
              raised |-> "none"]

\* Mutant of download_minute_data: the lists are cleared before the download.
DownloadMinuteCleared(self, unit_no, date, live, drive) ==
    _download([self EXCEPT !.datatype = "Minute", !.errors = <<>>, !.warnings = <<>>],
              unit_no, ExportUrl(unit_no, "exportDaily", date), live, drive)

\* download_minute_data(date) / download_hour_data(date)
download_minute_data(self, unit_no, date, live, drive) ==
    _download([self EXCEPT !.datatype = "Minute"], unit_no,
              ExportUrl(unit_no, "exportDaily", date), live, drive)

download_hour_data(self, unit_no, date, live, drive) ==
    _download([self EXCEPT !.datatype = "Hour"], unit_no,
              ExportUrl(unit_no, "exportMonthly", date), live, drive)

download_data(data_type, self, unit_no, date, live, drive) ==
    IF data_type = "Minute" THEN download_minute_data(self, unit_no, date, live, drive)
    ELSE download_hour_data(self, unit_no, date, live, drive)

\* self.channels of a configuration file: channel name -> monitored or not,
\* in the file's order.
UnitChannels ==
    << [name |-> "Main", monitored |-> TRUE],
       [name |-> "Spare", monitored |-> FALSE] >>

\* What the rule engine (rules.py, channels.py) hands back: the error list,
\* the warning list and, for check_missing_rows, the bad row indices.
RuleOutput(rule, flagged) ==
    [errors |-> IF flagged THEN << <<rule, "error">> >> ELSE <<>>,
     warnings |-> IF flagged THEN << <<rule, "warning">> >> ELSE <<>>,
     bad_indices |-> IF flagged /\ rule = "check_missing_rows" THEN {1} ELSE {}]

RuleOutcomes == [missing : BOOLEAN, energy : BOOLEAN, channel : BOOLEAN]

\* What a return statement hands back: `return self.errors, self.warnings`,
\* or None for the bare `return` of the hour branch.
ReturnLists(self) ==
    [returned |-> "lists", errors |-> self.errors, warnings |-> self.warnings]
ReturnNone == [returned |-> "None", errors |-> <<>>, warnings |-> <<>>]

\* Mutant of ChannelChecks: a check_channel call for every channel, whatever
\* its flag.
RECURSIVE ChannelChecksAll(_, _, _, _)
ChannelChecksAll(self, ran, chans, r) ==
    IF chans = <<>> THEN [unit |-> self, ran |-> ran]
    ELSE LET out == RuleOutput(<<"check_channel", Head(chans).name>>, r.channel)
             bad == RuleOutput("check_missing_rows", r.missing).bad_indices
         IN  ChannelChecksAll([self EXCEPT !.errors = @ \o out.errors,
                                           !.warnings = @ \o out.warnings],
                              Append(ran, <<"check_channel", Head(chans).name, bad>>),
                              Tail(chans), r)

\* The loop over self.channels: a check_channel call for every channel whose
\* flag is True, each handed the bad indices of check_missing_rows.
RECURSIVE ChannelChecks(_, _, _, _)
ChannelChecks(self, ran, chans, r) ==
    IF chans = <<>> THEN [unit |-> self, ran |-> ran]
    ELSE IF Head(chans).monitored
    THEN LET out == RuleOutput(<<"check_channel", Head(chans).name>>, r.channel)
             bad == RuleOutput("check_missing_rows", r.missing).bad_indices
         IN  ChannelChecks([self EXCEPT !.errors = @ \o out.errors,
                                        !.warnings = @ \o out.warnings],
                           Append(ran, <<"check_channel", Head(chans).name, bad>>),
                           Tail(chans), r)
    ELSE ChannelChecks(self, ran, Tail(chans), r)

\* f'{self.datatype}_Data/UNIT {self.unit_no}/Unit_{self.unit_no}_{period}.csv'
SavedFile(self, unit_no, period) ==
    [folder |-> <<self.datatype, "Data", "UNIT", unit_no>>,
     name |-> <<"Unit", unit_no, period>>, ext |-> "csv", content |-> self.data]

\* Mutant of IsHour: the hour branch is never taken.
HourAsMinute(self) == FALSE

\* `if (self.datatype == "Hour")`
IsHour(self) == self.datatype = "Hour"

\* Unit.check_quality(save_files, date): the new Unit fields, the value
\* returned, the rule calls in order, the Log.write calls and the files written.
check_quality(self, unit_no, save_files, date, r) ==
    IF self.data = None
    THEN [unit |-> self, ret |-> ReturnLists(self), ran |-> <<>>, logged |-> <<>>,
          written |-> {}]
    ELSE LET m == RuleOutput("check_missing_rows", r.missing)
             s1 == [self EXCEPT !.errors = @ \o m.errors,
                                !.warnings = @ \o m.warnings]
             log1 == << <<"Checking Unit", unit_no>> >>
         IN  IF IsHour(self)
             THEN [unit |-> s1, ret |-> ReturnNone,
                   ran |-> << <<"check_missing_rows">> >>, logged |-> log1,
                   written |-> IF save_files
                               THEN { SavedFile(s1, unit_no, <<"last_month">>) }
                               ELSE {}]
             ELSE LET e == RuleOutput("check_total_energy", r.energy)
                      s2 == [s1 EXCEPT !.errors = @ \o e.errors,
                                       !.warnings = @ \o e.warnings]
                      c == ChannelChecks(s2, << <<"check_missing_rows">>,
                                                <<"check_total_energy">> >>,
                                         UnitChannels, r)
                      s3 == c.unit
                      log2 == IF s3.errors = <<>> /\ s3.warnings = <<>>
                              THEN Append(log1, <<"Passed all systems checks", unit_no>>)
                              ELSE log1
                  IN  [unit |-> s3, ret |-> ReturnLists(s3), ran |-> c.ran,
                       logged |-> Append(log2, <<"\n">>),
                       written |-> IF save_files
                                   THEN { SavedFile(s3, unit_no, date) }
                                   ELSE {}]

\* What Unit.load_data(path) finds at the path:
\*   file                 a CSV file that pd.read_csv reads
\*   file_bad_timestamps  the same, first column rejected by pd.to_datetime
\*   dir                  a directory with a folder <unit_no> of CSV files
\*   dir_bad_timestamps   the same, one file's first column rejected
\*   dir_no_match         a directory without a folder <unit_no>
\*   raised               pd.read_csv or pd.concat raises
LoadOutcomes ==
    {"file", "file_bad_timestamps", "dir", "dir_bad_timestamps", "dir_no_match",
     "raised"}

\* The except branch of _fix_order run on a loaded file
LoadTimestampErrors(found) ==
    IF found \in {"file_bad_timestamps", "dir_bad_timestamps"}
    THEN << <<"Error parsing timestamps">> >> ELSE <<>>

\* Unit.load_data(path): the new Unit fields, the value returned and whether
\* an exception leaves the call.
load_data(self, unit_no, found) ==
    IF found = "raised"
    THEN [unit |-> self, ret |-> "none", raised |-> TRUE]
    ELSE LET loaded == IF found = "dir_no_match" THEN self
                       ELSE [self EXCEPT
                               !.data = DataFrame(unit_no, <<"loaded">>, found),
                               !.errors = @ \o LoadTimestampErrors(found)]
         IN  [unit |-> loaded, ret |-> IF loaded.data = None THEN "False" ELSE "True",
              raised |-> FALSE]

\* Whether the Drive path is entered at all for these outcomes, by the
\* exception classes alone.
DriveEntered(unit_no, live) ==
    ~LiveOk(live) /\ ~IsValueError(live) /\ unit_no \in DOMAIN google_paths

\* History record of one download call.  `succeeded` is told from the outcomes
\* of the two paths, not from the fields the call wrote.
CallRecord(data_type, unit_no, date, live, drive, res) ==
    [data_type |-> data_type, unit |-> unit_no, date |-> date, live |-> live,
     drive |-> drive, attempts |-> res.attempts, failed |-> res.failed,
     logged |-> res.logged, raised |-> res.raised,
     succeeded |-> (LiveOk(live) \/ (res.attempts # <<>> /\ drive = "loaded"))]

\* The outcomes of one call: the Drive outcome is drawn only when the Drive
\* path runs.
CallOutcomes(unit_no) ==
    { o \in [live : LiveOutcomes, drive : DriveOutcomes \cup {"not_run"}] :
        (o.drive = "not_run") <=> ~DriveEntered(unit_no, o.live) }

NoQuery ==
    [q |-> [sm |-> 0, sy |-> 0, em |-> 0, ey |-> 0, data_type |-> "Minute"],
     pc |-> "none", range |-> NoRange,
     current |-> Date(0, 0, 0), end |-> Date(0, 0, 0), dates |-> <<>>]

NoClick == [kind |-> "none", selected |-> <<>>, q |-> NoQuery.q]

NoReturn ==
    [run |-> 0, cancelled_at |-> "", report |-> "", leaked |-> {}, log |-> <<>>,
     successful_downloads |-> 0, total_downloads |-> 0, selected |-> <<>>,
     dates |-> <<>>, data_type |-> "", combine_var |-> FALSE,
     quality_report_var |-> FALSE, stages |-> <<>>, delivered |-> {}]

\* A behaviour has at most MaxStarts runs, which make at most MaxCalls
\* downloads between them; Start is not clicked once MaxStarts runs began.
MaxStarts == 2
MaxCalls == 2

\* QualityChecker not yet used: an empty data tree and no report.
NoQuality == [op |-> "none"]

InitQuality == qc = NoQuality

\* No pure function is under check.
NoApplied == [op |-> "none"]

InitApplied == applied = NoApplied

InitUnits ==
    /\ units = [u \in ConfiguredUnits |-> NewUnit]
    /\ failed_downloads = <<>>
    /\ calls = <<>>
    /\ checks = <<>>
    /\ loads = <<>>
    /\ probes = <<>>

\* BulkDownloadGUI.__init__ and create_download_controls
InitGui ==
    /\ is_downloading = FALSE
    /\ temp_dirs = <<>>
    /\ download_btn = "normal"
    /\ cancel_btn = FALSE
    /\ progress_var = 0
    /\ status_label = ""
    /\ stack = <<>>
    /\ disk = {}
    /\ unitdirs = {}
    /\ files = {}
    /\ next_dir = 0
    /\ downloads = {}
    /\ dialogs = <<>>
    /\ click = NoClick
    /\ returned = NoReturn
    /\ runs = 0
    /\ budget = MaxCalls

(***************************************************************************)
(* SpecUnit: download calls on the Unit instances, in any order.           *)
(***************************************************************************)
\* The download, check_quality and load_data calls made so far
OpsDone == Len(calls) + Len(checks) + Len(loads)

MinuteDateArgs == {<<2024, 2, 28>>, <<2024, 2, 29>>}
HourDateArgs == {<<2024, 1>>, <<2024, 2>>}

DoDownload(data_type, u, date, o) ==
    LET res == download_data(data_type, units[u], u, date, o.live, o.drive)
    IN  /\ units' = [units EXCEPT ![u] = res.unit]
        /\ failed_downloads' = failed_downloads \o res.failed
        /\ calls' = Append(calls, CallRecord(data_type, u, date, o.live, o.drive, res))
        /\ UNCHANGED <<checks, loads, probes>>

DownloadMinuteData ==
    /\ OpsDone < MaxOps
    /\ \E u \in ConfiguredUnits, date \in MinuteDateArgs :
          \E o \in CallOutcomes(u) : DoDownload("Minute", u, date, o)
    /\ UNCHANGED <<dq, qc, applied, guivars>>

DownloadHourData ==
    /\ OpsDone < MaxOps
    /\ \E u \in ConfiguredUnits, date \in HourDateArgs :
          \E o \in CallOutcomes(u) : DoDownload("Hour", u, date, o)
    /\ UNCHANGED <<dq, qc, applied, guivars>>

CheckDateArgs == {<<2024, 2, 29>>}

\* check_quality on a configured unit, with the rule engine's outputs drawn.
CheckQuality ==
    /\ OpsDone < MaxOps
    /\ \E u \in ConfiguredUnits, save_files \in BOOLEAN, date \in CheckDateArgs :
          \E r \in RuleOutcomes :
             LET res == check_quality(units[u], u, save_files, date, r)
             IN  /\ units' = [units EXCEPT ![u] = res.unit]
                 /\ checks' = Append(checks,
                       [unit |-> u, save_files |-> save_files, date |-> date,
                        rules |-> r, before |-> units[u], after |-> res.unit,
                        ret |-> res.ret, ran |-> res.ran, logged |-> res.logged,
                        written |-> res.written, ncalls |-> Len(calls)])
    /\ UNCHANGED <<dq, qc, applied, failed_downloads, calls, loads, probes, guivars>>

\* load_data on a configured unit, with what the path holds drawn.
LoadData ==
    /\ OpsDone < MaxOps
    /\ \E u \in ConfiguredUnits, found \in LoadOutcomes :
          LET res == load_data(units[u], u, found)
          IN  /\ units' = [units EXCEPT ![u] = res.unit]
              /\ loads' = Append(loads, [unit |-> u, found |-> found,
                                         ret |-> res.ret, raised |-> res.raised])
    /\ UNCHANGED <<dq, qc, applied, failed_downloads, calls, checks, probes, guivars>>

InitUnitSpec ==
    /\ dq = NoQuery
    /\ InitUnits
    /\ InitGui
    /\ InitApplied
    /\ InitQuality

NextUnit == DownloadMinuteData \/ DownloadHourData \/ CheckQuality \/ LoadData

SpecUnit == InitUnitSpec /\ [][NextUnit]_vars

(***************************************************************************)
(* SpecSpace: check_space calls on the Unit instances, with the text of    *)
(* the free-space span drawn.                                              *)
(***************************************************************************)
\* A behaviour of SpecSpace has at most MaxProbes check_space calls.
MaxProbes == 2

\* The text of the inner span, by what float() makes of it: a decimal number
\* (held in tenths of a GB), nan, inf, -inf, or text float() rejects.
SpaceTexts ==
    [kind : {"decimal"}, tenths : {-5, 0, 9, 10, 11, 200, 399, 400, 401, 640}]
    \cup [kind : {"nan", "inf", "-inf", "text"}, tenths : {0}]

\* is_float(value): float(value) does not raise
is_float(value) == value.kind # "text"

\* float(space) > n and float(space) < n, for a whole number n of GB; every
\* comparison with nan is False.
FloatGreater(value, n) ==
    CASE value.kind = "decimal" -> value.tenths > n * 10
      [] value.kind = "inf" -> TRUE
      [] OTHER -> FALSE

FloatLess(value, n) ==
    CASE value.kind = "decimal" -> value.tenths < n * 10
      [] value.kind = "-inf" -> TRUE
      [] OTHER -> FALSE

\* Mutant of SpaceHealthy: no upper limit.
SpaceAboveOne(space) == is_float(space) /\ FloatGreater(space, 1)

\* `is_float(space) and float(space) > 1 and float(space) < 40`
SpaceHealthy(space) ==
    is_float(space) /\ FloatGreater(space, 1) /\ FloatLess(space, 40)

\* Unit.check_space() once the span is read: the Log.write calls and the
\* send_email calls.
check_space(unit_no, space) ==
    IF SpaceHealthy(space)
    THEN [logged |-> << <<"GB left on the SD card", unit_no, space>> >>,
          emails |-> <<>>]
    ELSE [logged |-> << <<"Less than 1GB of space available on the SD card",
                          unit_no, space>> >>,
          emails |-> << <<"Maple West SD Card Storage Almost Full", unit_no, space>> >>]

CheckSpace ==
    /\ Len(probes) < MaxProbes
    /\ \E u \in ConfiguredUnits, space \in SpaceTexts :
          LET res == check_space(u, space)
          IN  probes' = Append(probes, [unit |-> u, space |-> space,
                                        logged |-> res.logged, emails |-> res.emails])
    /\ UNCHANGED <<dq, qc, applied, units, failed_downloads, calls, checks, loads, guivars>>

InitSpace ==
    /\ dq = NoQuery
    /\ InitUnits
    /\ InitGui
    /\ InitApplied
    /\ InitQuality

NextSpace == CheckSpace

SpecSpace == InitSpace /\ [][NextSpace]_vars

(***************************************************************************)
(* SpecStatus: check_status calls on the Unit instances, with the status   *)
(* page drawn.  A call is recorded in probes.                              *)
(***************************************************************************)
\* A status page holds at most MaxImgs img elements.
MaxImgs == 2

\* The src attribute values drawn, as sequences of characters: "green",
\* "a/green.g", "red", "Green", "gree" and "".
ImgSources ==
    { <<"g", "r", "e", "e", "n">>,
      <<"a", "/", "g", "r", "e", "e", "n", ".", "g">>,
      <<"r", "e", "d">>,
      <<"G", "r", "e", "e", "n">>,
      <<"g", "r", "e", "e">>,
      <<>> }

\* An img element: with a src attribute, or without one.
ImgTags ==
    [has_src : {TRUE}, src : ImgSources] \cup [has_src : {FALSE}, src : {<<>>}]

\* What urlopen(url) gives: it raises, or a page with its img elements in
\* document order.
StatusPages ==
    [fetched : {FALSE}, imgs : {<<>>}]
    \cup [fetched : {TRUE},
          imgs : UNION { [1..n -> ImgTags] : n \in 0..MaxImgs }]

\* `sub in s` on strings
Contains(s, sub) ==
    \E i \in 0..(Len(s) - Len(sub)) :
        \A k \in 1..Len(sub) : s[i + k] = sub[k]

\* `'green' in img_src`
StatusGreen(img_src) == Contains(img_src, <<"g", "r", "e", "e", "n">>)

\* Unit.check_status(): the Log.write calls, the send_email calls, the print
\* calls and the exception that leaves the call, if one does.
check_status(unit_no, page) ==
    LET quiet == [logged |-> <<>>, emails |-> <<>>, printed |-> <<>>, raised |-> "none"]
    IN
    IF ~page.fetched
    THEN [quiet EXCEPT !.raised = "URLError"]
    ELSE IF page.imgs = <<>>
    THEN [quiet EXCEPT !.printed = <<"Something went wrong with status check">>]
    ELSE LET status_logo == page.imgs[1] IN
         IF ~status_logo.has_src
         THEN [quiet EXCEPT !.raised = "KeyError"]
         ELSE IF StatusGreen(status_logo.src)
         THEN [quiet EXCEPT !.logged = << <<"Dashbox Status OK", unit_no>> >>,
                            !.printed = <<"Dashbox Status OK">>]
         ELSE [quiet EXCEPT !.logged = << <<"Dashbox Status Error", unit_no>> >>,
                            !.printed = <<"Dashbox Status Error">>,
                            !.emails = << <<"Maple West Dashbox Status Errors Detected",
                                            unit_no>> >>]

CheckStatus ==
    /\ Len(probes) < MaxProbes
    /\ \E u \in ConfiguredUnits, page \in StatusPages :
          LET res == check_status(u, page)
          IN  probes' = Append(probes, [unit |-> u, page |-> page,
                                        logged |-> res.logged, emails |-> res.emails,
                                        printed |-> res.printed, raised |-> res.raised])
    /\ UNCHANGED <<dq, qc, applied, units, failed_downloads, calls, checks, loads, guivars>>

InitStatus ==
    /\ dq = NoQuery
    /\ InitUnits
    /\ InitGui
    /\ InitApplied
    /\ InitQuality

NextStatus == CheckStatus

SpecStatus == InitStatus /\ [][NextStatus]_vars

(***************************************************************************)
(* SpecLoad: load_units on a configuration directory.                      *)
(***************************************************************************)
\* A configuration directory holds at most MaxConfigs files.
MaxConfigs == 3

\* os.listdir(config_path), in the order the system gives: the i-th file is
\* a .json file with its unit_no, or a file with another ending.
ConfigFiles == [ext : {"json", "txt"}, unit_no : {77, 78, 2820}]

Listings == UNION { [1..n -> ConfigFiles] : n \in 0..MaxConfigs }

\* units.append(Unit(unit['unit_no'], ...)) for every file ending in .json
RECURSIVE LoadedUnits(_, _)
LoadedUnits(listing, i) ==
    IF i > Len(listing) THEN <<>>
    ELSE (IF listing[i].ext = "json"
          THEN << [unit_no |-> listing[i].unit_no, file |-> i] >>
          ELSE <<>>) \o LoadedUnits(listing, i + 1)

\* Unit.__lt__, and the key of load_units: by unit_no
UnitLt(a, b) == a.unit_no < b.unit_no

\* sorted(): a stable sort; a record goes behind the records not greater.
RECURSIVE InsertUnit(_, _)
InsertUnit(sorted, x) ==
    IF sorted = <<>> THEN <<x>>
    ELSE IF UnitLt(x, Head(sorted)) THEN <<x>> \o sorted
    ELSE <<Head(sorted)>> \o InsertUnit(Tail(sorted), x)

RECURSIVE SortedUnits(_)
SortedUnits(us) ==
    IF us = <<>> THEN <<>>
    ELSE InsertUnit(SortedUnits(SubSeq(us, 1, Len(us) - 1)), us[Len(us)])

\* Mutant of load_units: the records in the order of the listing.
LoadUnitsUnsorted(listing) == LoadedUnits(listing, 1)

\* BulkDownloadGUI.load_units(config_path)
load_units(listing) == SortedUnits(LoadedUnits(listing, 1))

\* QualityChecker._load_units(config_path) of qualitychecker.py
_load_units(listing) == SortedUnits(LoadedUnits(listing, 1))

\* QualityChecker._load_units() of main.py: a dict keyed by unit_no;
\* `units[config['unit_no']] = config` replaces the entry of an earlier file.
RECURSIVE QualityChecker_load_units(_, _, _)
QualityChecker_load_units(listing, i, units_) ==
    IF i > Len(listing) THEN units_
    ELSE IF listing[i].ext = "json"
    THEN LET config == [unit_no |-> listing[i].unit_no, file |-> i]
             keys == DOMAIN units_ \cup {config.unit_no}
         IN  QualityChecker_load_units(listing, i + 1,
                [k \in keys |-> IF k = config.unit_no THEN config ELSE units_[k]])
    ELSE QualityChecker_load_units(listing, i + 1, units_)

InitLoad ==
    /\ applied \in { [op |-> "listing", listing |-> l, gui |-> <<>>, checker |-> <<>>,
                       configs |-> <<>>] :
                       l \in Listings }
    /\ dq = NoQuery
    /\ InitUnits
    /\ InitGui
    /\ InitQuality

LoadUnits ==
    /\ applied.op = "listing"
    /\ applied' = [applied EXCEPT !.op = "load_units",
                                  !.gui = load_units(applied.listing),
                                  !.checker = _load_units(applied.listing),
                                  !.configs = QualityChecker_load_units(
                                                  applied.listing, 1, <<>>)]
    /\ UNCHANGED <<dq, qc, unitvars, guivars>>

NextLoad == LoadUnits

SpecLoad == InitLoad /\ [][NextLoad]_vars

(***************************************************************************)
(* SpecOrder: the row-order normalisation of _fix_order and of             *)
(* combine_data on a table.                                                *)
(***************************************************************************)
\* A table has at most MaxRows rows.
MaxRows == 3

\* The first cell of a row: a time 1..LastTime, or BadTime for text
\* pd.to_datetime rejects.
BadTime == 0
LastTime == 3

\* A row: its timestamp, and the line of the export it came from.
Tables ==
    UNION { { [i \in 1..n |-> [ts |-> t[i], line |-> i]] :
                t \in [1..n -> {BadTime} \cup 1..LastTime] } : n \in 0..MaxRows }

\* df.iloc[::-1]
Reversed(df) == [i \in 1..Len(df) |-> df[Len(df) + 1 - i]]

\* pd.to_datetime(df.iloc[:, 0]) raises on a cell it cannot parse
ColumnParses(df) == \A i \in 1..Len(df) : df[i].ts # BadTime

\* Mutant of _fix_order: the table is returned as it came.
FixOrderNever(df) == [df |-> df, errors |-> <<>>]

\* Unit._fix_order(df): the table returned and the entries appended to
\* self.errors.
_fix_order(df) ==
    IF Len(df) < 2 THEN [df |-> df, errors |-> <<>>]
    ELSE IF ~ColumnParses(df)
    THEN [df |-> df, errors |-> << <<"Error parsing timestamps">> >>]
    ELSE IF df[1].ts > df[2].ts THEN [df |-> Reversed(df), errors |-> <<>>]
    ELSE [df |-> df, errors |-> <<>>]

\* The same step in combine_data: only the first two cells are parsed.
CombineOrder(df) ==
    IF Len(df) > 1
    THEN IF df[1].ts = BadTime \/ df[2].ts = BadTime THEN df
         ELSE IF df[1].ts > df[2].ts THEN Reversed(df)
         ELSE df
    ELSE df

InitOrder ==
    /\ applied \in { [op |-> "table", df |-> t, fixed |-> FixOrderNever(<<>>),
                      combined |-> <<>>, again |-> FixOrderNever(<<>>),
                      combined_again |-> <<>>] : t \in Tables }
    /\ dq = NoQuery
    /\ InitUnits
    /\ InitGui
    /\ InitQuality

FixOrder ==
    /\ applied.op = "table"
    /\ applied' = [applied EXCEPT !.op = "fix_order",
                                  !.fixed = _fix_order(applied.df),
                                  !.combined = CombineOrder(applied.df)]
    /\ UNCHANGED <<dq, qc, unitvars, guivars>>

\* The normalisation run on a table it has already normalised: a saved file
\* is loaded by load_data, a downloaded file is combined by combine_data.
FixOrderAgain ==
    /\ applied.op = "fix_order"
    /\ applied' = [applied EXCEPT !.op = "fix_order_again",
                                  !.again = _fix_order(applied.fixed.df),
                                  !.combined_again = CombineOrder(applied.combined)]
    /\ UNCHANGED <<dq, qc, unitvars, guivars>>

NextOrder == FixOrder \/ FixOrderAgain

SpecOrder == InitOrder /\ [][NextOrder]_vars

(***************************************************************************)
(* SpecSort: the natural sort of combine_data on the CSV files of one      *)
(* folder.  A file name is its sequence of character codes.                *)
(***************************************************************************)
\* A folder holds at most MaxListed files.
MaxListed == 3

\* str.isdigit() of one character, and of a text
IsDigit(c) == c \in 48..57
IsDigitText(text) == text # <<>> /\ \A i \in 1..Len(text) : IsDigit(text[i])

\* str.lower()
LowerChar(c) == IF c \in 65..90 THEN c + 32 ELSE c
Lower(text) == [i \in 1..Len(text) |-> LowerChar(text[i])]

\* int(text) of a run of digits
RECURSIVE IntOf(_)
IntOf(text) ==
    IF text = <<>> THEN 0
    ELSE IntOf(SubSeq(text, 1, Len(text) - 1)) * 10 + (text[Len(text)] - 48)

\* re.split('(\\d+)', s): texts and runs of digits in turn, a text first and
\* last (empty where the name begins or ends with a digit).
RECURSIVE SplitDigits(_, _)
SplitDigits(s, parts) ==
    IF s = <<>>
    THEN IF Len(parts) % 2 = 0 THEN Append(parts, <<>>) ELSE parts
    ELSE IF IsDigit(Head(s)) <=> (Len(parts) % 2 = 0)
    THEN SplitDigits(Tail(s), [parts EXCEPT ![Len(parts)] = Append(@, Head(s))])
    ELSE SplitDigits(Tail(s), Append(parts, <<Head(s)>>))

IntPart(n) == [int |-> TRUE, v |-> n, text |-> <<>>]
TextPart(text) == [int |-> FALSE, v |-> 0, text |-> text]

\* Mutant of natural_sort_key: runs of digits are kept as text.
LexicalKey(s) ==
    LET parts == SplitDigits(s, << <<>> >>)
    IN  [i \in 1..Len(parts) |-> TextPart(Lower(parts[i]))]

\* natural_sort_key(s):
\* [int(text) if text.isdigit() else text.lower() for text in re.split(...)]
natural_sort_key(s) ==
    LET parts == SplitDigits(s, << <<>> >>)
    IN  [i \in 1..Len(parts) |-> IF IsDigitText(parts[i]) THEN IntPart(IntOf(parts[i]))
                                 ELSE TextPart(Lower(parts[i]))]

\* str < str: by the first character that differs, a prefix first
TextLt(a, b) ==
    \/ \E i \in 1..Len(a) :
          /\ i <= Len(b) /\ a[i] < b[i]
          /\ \A j \in 1..(i - 1) : a[j] = b[j]
    \/ Len(a) < Len(b) /\ \A j \in 1..Len(a) : a[j] = b[j]

PartLt(x, y) == IF x.int THEN x.v < y.v ELSE TextLt(x.text, y.text)

\* list < list: by the first part that differs, a prefix first
KeyLt(a, b) ==
    \/ \E i \in 1..Len(a) :
          /\ i <= Len(b) /\ a[i] # b[i] /\ PartLt(a[i], b[i])
          /\ \A j \in 1..(i - 1) : a[j] = b[j]
    \/ Len(a) < Len(b) /\ \A j \in 1..Len(a) : a[j] = b[j]

\* int < str raises TypeError: the parts compared are of one kind
Comparable(a, b) ==
    \A i \in 1..Len(a) :
        (i <= Len(b) /\ \A j \in 1..(i - 1) : a[j] = b[j]) => a[i].int = b[i].int

\* csv_files.sort(key=...): a stable sort; a file goes behind the files whose
\* key is not greater.
RECURSIVE InsertFile(_, _)
InsertFile(sorted, x) ==
    IF sorted = <<>> THEN <<x>>
    ELSE IF KeyLt(natural_sort_key(x.name), natural_sort_key(Head(sorted).name))
    THEN <<x>> \o sorted
    ELSE <<Head(sorted)>> \o InsertFile(Tail(sorted), x)

RECURSIVE NaturalSorted(_)
NaturalSorted(fs) ==
    IF fs = <<>> THEN <<>>
    ELSE InsertFile(NaturalSorted(SubSeq(fs, 1, Len(fs) - 1)), fs[Len(fs)])

\* pd.concat(dfs, ignore_index=True) of the files read in that order
RECURSIVE ConcatRows(_)
ConcatRows(fs) ==
    IF fs = <<>> THEN <<>> ELSE Head(fs).rows \o ConcatRows(Tail(fs))

\* The name Unit_7_<date>.csv in character codes, the day the file is for, and
\* its rows.
NamedFile(datetext, date) ==
    [name |-> <<85, 110, 105, 116, 95, 55, 95>> \o datetext \o <<46, 99, 115, 118>>,
     date |-> date, rows |-> << [date |-> date, line |-> 1], [date |-> date, line |-> 2] >>]

\* 2024-1-2, 2024-1-10, 2024-01-09, 2024-02-01, 2023-12-31, 2024-1-9
SortPool ==
    { NamedFile(<<50, 48, 50, 52, 45, 49, 45, 50>>, <<2024, 1, 2>>),
      NamedFile(<<50, 48, 50, 52, 45, 49, 45, 49, 48>>, <<2024, 1, 10>>),
      NamedFile(<<50, 48, 50, 52, 45, 48, 49, 45, 48, 57>>, <<2024, 1, 9>>),
      NamedFile(<<50, 48, 50, 52, 45, 48, 50, 45, 48, 49>>, <<2024, 2, 1>>),
      NamedFile(<<50, 48, 50, 51, 45, 49, 50, 45, 51, 49>>, <<2023, 12, 31>>),
      NamedFile(<<50, 48, 50, 52, 45, 49, 45, 57>>, <<2024, 1, 9>>) }

\* os.listdir(unit_dir): files of different names, in any order
Folders ==
    UNION { { l \in [1..n -> SortPool] :
                \A i, j \in 1..n : i # j => l[i].name # l[j].name } : n \in 0..MaxListed }

InitSort ==
    /\ applied \in { [op |-> "folder", csv_files |-> l, sorted |-> <<>>,
                      combined_data |-> <<>>] : l \in Folders }
    /\ dq = NoQuery
    /\ InitUnits
    /\ InitGui
    /\ InitQuality

CombineSorted ==
    /\ applied.op = "folder"
    /\ \A i, j \in 1..Len(applied.csv_files) :
          Comparable(natural_sort_key(applied.csv_files[i].name),
                     natural_sort_key(applied.csv_files[j].name))
    /\ LET sorted == NaturalSorted(applied.csv_files)
       IN  applied' = [applied EXCEPT !.op = "combined", !.sorted = sorted,
                                      !.combined_data = ConcatRows(sorted)]
    /\ UNCHANGED <<dq, qc, unitvars, guivars>>

NextSort == CombineSorted

SpecSort == InitSort /\ [][NextSort]_vars

(***************************************************************************)
(* SpecDates: a query is drawn, validated, and its date list is built, one *)
(* loop iteration per step.                                                *)
(***************************************************************************)
DateQueries ==
    { q \in [sm : MonthInputs, sy : Years, em : MonthInputs, ey : Years,
             data_type : DataTypes] :
        MonthDiff(q.sm, q.sy, q.em, q.ey) <= MaxSpanMonths }

InitDates ==
    /\ \E q \in DateQueries :
          dq = [q |-> q, pc |-> "input", range |-> NoRange,
                current |-> Date(0, 0, 0), end |-> Date(0, 0, 0), dates |-> <<>>]
    /\ InitUnits
    /\ InitGui
    /\ InitApplied
    /\ InitQuality

DQValidate ==
    /\ dq.pc = "input"
    /\ LET r == validate_date_range(dq.q.sm, dq.q.sy, dq.q.em, dq.q.ey)
       IN  dq' = [dq EXCEPT !.range = r,
                            !.pc = IF RangeRejected(r) THEN "rejected" ELSE "valid"]
    /\ UNCHANGED <<qc, applied, unitvars, guivars>>

DQEnter ==
    /\ dq.pc = "valid"
    /\ LET s == LoopStart(dq.q.data_type, dq.range.start, dq.range.end)
       IN  dq' = [dq EXCEPT !.current = s.current, !.end = s.end, !.pc = "loop"]
    /\ UNCHANGED <<qc, applied, unitvars, guivars>>

DQIterate ==
    /\ dq.pc = "loop"
    /\ LoopCond(dq.q.data_type, dq.current, dq.end)
    /\ LET b == LoopBody(dq.q.data_type, dq.current, dq.dates)
       IN  dq' = [dq EXCEPT !.current = b.current, !.dates = b.dates]
    /\ UNCHANGED <<qc, applied, unitvars, guivars>>

DQReturn ==
    /\ dq.pc = "loop"
    /\ ~LoopCond(dq.q.data_type, dq.current, dq.end)
    /\ dq' = [dq EXCEPT !.pc = "built"]
    /\ UNCHANGED <<qc, applied, unitvars, guivars>>

NextDates == DQValidate \/ DQEnter \/ DQIterate \/ DQReturn

SpecDates == InitDates /\ [][NextDates]_vars

(***************************************************************************)
(* BulkDownloadGUI (main.py).                                              *)
(*                                                                         *)
(* The tool is single-threaded: a button's handler runs when the Tk event  *)
(* loop dispatches the click, which is in mainloop (no handler running)    *)
(* or inside a root.update() call of a running handler.  `stack` holds the *)
(* handlers in progress.  A handler's frame stops at the pcs U1..U8 and    *)
(* CU1, CU2, its root.update() calls; the steps between are not            *)
(* interruptible.                                                          *)
(***************************************************************************)

\* The root.update() calls of start_download (and the functions it calls):
\*   U1 start_download, before a download           (main.py:655)
\*   (the root.update() of update_progress, main.py:499, is never reached:
\*    see DownloadPair)
\*   U3 combine_data, before combining              (main.py:506)
\*   U4 combine_data, after combining               (main.py:566)
\*   U5 generate_quality_report                     (main.py:765)
\*   U6 cleanup_temp_dirs on the success path       (main.py:709, 452)
\*   U7 cleanup_temp_dirs in the finally clause     (main.py:737, 452)
\*   U8 finally clause                              (main.py:738)
\* and of cancel_download:
\*   CU1 cleanup_temp_dirs                          (main.py:464, 452)
\*   CU2                                            (main.py:465)
UpdatePcs == {"U1", "U3", "U4", "U5", "U6", "U7", "U8", "CU1", "CU2"}

Top == stack[Len(stack)]
SetTop(f) == [stack EXCEPT ![Len(stack)] = f]
Pop == SubSeq(stack, 1, Len(stack) - 1)

\* A click can be dispatched now.
Dispatching == IF stack = <<>> THEN TRUE ELSE Top.pc \in UpdatePcs

SeqToSet(q) == { q[i] : i \in 1..Len(q) }

\* The selections of the unit checkboxes, in load_units' order (sorted by
\* unit_no), as get_selected_units returns them.
Selections == { <<>>, <<77>>, <<2820>>, <<77, 2820>> }

\* The date comboboxes and the granularity radio button, in the model.
GuiQuery(sm, em, data_type) ==
    [sm |-> sm, sy |-> 2024, em |-> em, ey |-> 2024, data_type |-> data_type]

GuiQueries ==
    { GuiQuery(0, 1, "Minute"),     \* no month chosen
      GuiQuery(2, 1, "Hour"),       \* the end precedes the start
      GuiQuery(1, 1, "Hour"),
      GuiQuery(1, 2, "Hour"),
      GuiQuery(1, 1, "Minute") }

\* The date list of a run; the model follows its first `cap` dates.
RECURSIVE BuildDates(_, _, _, _, _)
BuildDates(data_type, current, end, dates, cap) ==
    IF LoopCond(data_type, current, end) /\ Len(dates) < cap
    THEN LET b == LoopBody(data_type, current, dates)
         IN  BuildDates(data_type, b.current, end, b.dates, cap)
    ELSE dates

DatesToDownload(data_type, start_date, end_date, cap) ==
    LET s == LoopStart(data_type, start_date, end_date)
    IN  BuildDates(data_type, s.current, s.end, <<>>, cap)

\* Whether the date list of a range is empty.
NoDates(data_type, start_date, end_date) ==
    LET s == LoopStart(data_type, start_date, end_date)
    IN  ~LoopCond(data_type, s.current, s.end)

BlankFrame ==
    [kind |-> "cancel", pc |-> "CU1", run |-> 0, selected |-> <<>>, dates |-> <<>>,
     data_type |-> "", range |-> NoRange, output_dir |-> 0, combined_dir |-> 0,
     di |-> 0, ui |-> 0, completed |-> 0, successful_downloads |-> 0,
     total_downloads |-> 0, log |-> <<>>, mine |-> {}, cancelled_at |-> "",
     exc |-> "", report |-> "", combine_var |-> FALSE, quality_report_var |-> FALSE,
     stages |-> <<>>, delivered |-> {}]

StartFrames == { i \in 1..Len(stack) : stack[i].kind = "start" }

\* shutil.rmtree of every directory in D
RmDisk(D) == disk \ D
RmUnitdirs(D) == { x \in unitdirs : x[1] \notin D }
RmFiles(D) == { x \in files : x.dir \notin D }

Dialog(kind, text) == [kind |-> kind, text |-> text]

\* Unit_<n>_<date>.csv in UNIT <n>
CsvFile(dir, u, date_str, data) ==
    [dir |-> dir, folder |-> <<"UNIT", u>>, name |-> <<"Unit", u, date_str>>,
     ext |-> "csv", content |-> <<data>>]

\* Writing a file replaces the file of that path.
WriteFile(fs, f) ==
    { x \in fs : ~(x.dir = f.dir /\ x.folder = f.folder /\ x.name = f.name
                   /\ x.ext = f.ext) } \cup {f}

(***************************************************************************)
(* start_download, entry to the first root.update().                       *)
(***************************************************************************)
StartDownload ==
    /\ Dispatching
    /\ download_btn = "normal"
    /\ runs < MaxStarts
    /\ \E selected_units \in Selections, q \in GuiQueries :
        LET r == validate_date_range(q.sm, q.sy, q.em, q.ey)
            ev == [kind |-> "start", selected |-> selected_units, q |-> q]
            cap == IF selected_units = <<>> THEN 0
                   ELSE budget \div Len(selected_units)
            dates == DatesToDownload(q.data_type, r.start, r.end, cap)
            total == Len(selected_units) * Len(dates)
            output_dir == next_dir + 1
            f == [BlankFrame EXCEPT
                    !.kind = "start",
                    !.run = runs + 1,
                    !.selected = selected_units,
                    !.dates = [i \in 1..Len(dates) |-> Strftime(q.data_type, dates[i])],
                    !.data_type = q.data_type,
                    !.range = r,
                    !.output_dir = output_dir,
                    !.di = 1, !.ui = 1,
                    !.total_downloads = total,
                    !.mine = {output_dir},
                    !.pc = IF total = 0 THEN "except" ELSE "loop",
                    !.exc = IF total = 0
                            THEN "No dates to download in the specified range"
                            ELSE ""]
        IN  /\ click' = ev
            /\ IF selected_units = <<>>
               THEN /\ dialogs' = << Dialog("error", "Please select at least one unit") >>
                    /\ UNCHANGED <<is_downloading, temp_dirs, stack, fsvars, uivars,
                                   runs, budget>>
               ELSE IF RangeRejected(r)
               THEN /\ dialogs' =
                         (IF r.ok THEN <<>>
                          ELSE << Dialog("error", "validate_date_range: ValueError") >>)
                         \o << Dialog("error", "Invalid date range") >>
                    /\ UNCHANGED <<is_downloading, temp_dirs, stack, fsvars, uivars,
                                   runs, budget>>
               ELSE /\ dates # <<>> \/ NoDates(q.data_type, r.start, r.end)
                    /\ runs' = runs + 1
                    /\ budget' = budget - total
                    /\ dialogs' = <<>>
                    /\ is_downloading' = TRUE
                    /\ download_btn' = "disabled"
                    /\ cancel_btn' = TRUE
                    /\ progress_var' = 0
                    /\ next_dir' = output_dir
                    /\ temp_dirs' = Append(temp_dirs, output_dir)
                    /\ disk' = disk \cup {output_dir}
                    /\ stack' = Append(stack, f)
                    /\ UNCHANGED <<status_label, unitdirs, files, downloads>>
    /\ UNCHANGED <<dq, qc, applied, unitvars, returned>>

(***************************************************************************)
(* The download loop.                                                      *)
(***************************************************************************)
\* The two `for` heads with their `if not self.is_downloading: break`, up to
\* the root.update() before the next download or to the end of the loop.
LoopHead ==
    /\ stack # <<>>
    /\ Top.kind = "start" /\ Top.pc = "loop"
    /\ LET f == Top
       IN  IF f.di > Len(f.dates) \/ ~is_downloading
           THEN /\ stack' = SetTop([f EXCEPT !.pc = "after_loop"])
                /\ UNCHANGED status_label
           ELSE IF f.ui > Len(f.selected)
           THEN /\ stack' = SetTop([f EXCEPT !.di = @ + 1, !.ui = 1])
                /\ UNCHANGED status_label
           ELSE /\ stack' = SetTop([f EXCEPT !.pc = "U1"])
                /\ status_label' = <<"Downloading Unit", f.selected[f.ui], f.dates[f.di]>>
    /\ click' = NoClick /\ dialogs' = <<>>
    /\ UNCHANGED <<dq, qc, applied, unitvars, is_downloading, temp_dirs, fsvars, histvars,
                   download_btn, cancel_btn, progress_var>>

\* The stages a run has gone through, in order, each named once.
Stage(f, name) ==
    IF f.stages # <<>> /\ f.stages[Len(f.stages)] = name THEN f.stages
    ELSE Append(f.stages, name)

\* Mutant of PairCaught: the exception of a pair leaves the loop and reaches
\* the `except Exception` of start_download.
PairUncaught(f) == [f EXCEPT !.pc = "except", !.exc = "TypeError"]

\* `except Exception as e: print(...)` of a pair: the inner `for` goes on
PairCaught(f) == [f EXCEPT !.pc = "loop", !.ui = @ + 1]

\* The outcomes of a download drawn in a run.
RunCallOutcomes(unit_no) ==
    { o \in CallOutcomes(unit_no) :
        /\ o.live \notin {"parse_error", "bad_timestamps"}
        /\ o.drive \in {"not_run", "loaded", "not_found"} }

\* `unit.data is not None and not unit.data.empty`
HasData(self) == self.data # None

\* From the return of the root.update() at U1 to the end of the pair: makedirs,
\* the download, the save, the counters and update_progress.  self.start_time
\* is None (main.py:230) and is set only `if completed == 0` (main.py:485-486),
\* while completed is at least 1 here: update_progress sets the progress bar
\* and raises TypeError at main.py:493, before its root.update().  The
\* `except Exception` of the pair (main.py:680-681) prints it and the inner
\* `for` goes on to the next unit.
DownloadPair ==
    /\ stack # <<>>
    /\ Top.kind = "start" /\ Top.pc = "U1"
    /\ LET f == Top
           u == f.selected[f.ui]
           date_str == f.dates[f.di]
       IN  \E o \in RunCallOutcomes(u) :
           LET res == download_data(f.data_type, units[u], u, date_str, o.live, o.drive)
               rec == CallRecord(f.data_type, u, date_str, o.live, o.drive, res)
               save == HasData(res.unit)
               entry == [unit |-> u, date |-> date_str, flag |-> is_downloading,
                         succeeded |-> rec.succeeded, saved |-> save,
                         caught |-> "TypeError"]
               completed == f.completed + 1
           IN  /\ disk' = disk \cup {f.output_dir}
               /\ unitdirs' = unitdirs \cup {<<f.output_dir, u>>}
               /\ units' = [units EXCEPT ![u] = res.unit]
               /\ failed_downloads' = failed_downloads \o res.failed
               /\ files' = IF save
                           THEN WriteFile(files, CsvFile(f.output_dir, u, date_str,
                                                         res.unit.data))
                           ELSE files
               /\ progress_var' = (completed * 100) \div f.total_downloads
               /\ stack' = SetTop(PairCaught([f EXCEPT
                     !.completed = completed,
                     !.successful_downloads = IF save THEN @ + 1 ELSE @,
                     !.stages = Stage(f, "download"),
                     !.log = Append(@, entry)]))
    /\ click' = NoClick /\ dialogs' = <<>>
    /\ UNCHANGED <<dq, qc, applied, calls, checks, loads, probes, is_downloading, temp_dirs, next_dir, downloads,
                   histvars,
                   download_btn, cancel_btn, status_label>>

(***************************************************************************)
(* After the loop: combine, quality report, archive.                       *)
(***************************************************************************)
\* `if self.is_downloading and successful_downloads > 0:` and, when it holds,
\* `if self.combine_var.get():` with combine_data up to its first
\* root.update(); the checkbox is read here, so its value is drawn here.
ProcessDownloaded ==
    /\ stack # <<>>
    /\ Top.kind = "start" /\ Top.pc = "after_loop"
    /\ LET f == Top
       IN  IF is_downloading /\ f.successful_downloads > 0
           THEN \E combine_var \in BOOLEAN :
                  IF combine_var
                  THEN /\ status_label' = <<"Combining data files...">>
                       /\ stack' = SetTop([f EXCEPT !.pc = "U3", !.combine_var = TRUE])
                  ELSE /\ status_label' = <<"Processing downloaded files...">>
                       /\ stack' = SetTop([f EXCEPT !.pc = "quality"])
           ELSE /\ stack' = SetTop([f EXCEPT
                      !.pc = "except",
                      !.exc = IF ~is_downloading THEN "Download cancelled by user"
                              ELSE "No data was successfully downloaded"])
                /\ UNCHANGED status_label
    /\ click' = NoClick /\ dialogs' = <<>>
    /\ UNCHANGED <<dq, qc, applied, unitvars, is_downloading, temp_dirs, fsvars, histvars,
                   download_btn, cancel_btn, progress_var>>

\* natural_sort_key order of two date texts of one format: digit runs compare
\* as numbers.
NaturalLt(a, b) ==
    \E i \in 1..Len(a) :
        /\ a[i] < b[i]
        /\ \A j \in 1..(i - 1) : a[j] = b[j]

RECURSIVE SortedFiles(_)
SortedFiles(fs) ==
    IF fs = {} THEN <<>>
    ELSE LET first == CHOOSE x \in fs :
                          \A y \in fs \ {x} : NaturalLt(x.name[3], y.name[3])
         IN  <<first>> \o SortedFiles(fs \ {first})

RECURSIVE Concat(_)
Concat(fseq) ==
    IF fseq = <<>> THEN <<>> ELSE Head(fseq).content \o Concat(Tail(fseq))

CsvFilesIn(dir, u) ==
    { x \in files : x.dir = dir /\ x.folder = <<"UNIT", u>> /\ x.ext = "csv" }

\* The units combine_data writes a combined file for: the folder exists and
\* holds CSV files.
Combinable(f) ==
    { u \in SeqToSet(f.selected) :
        <<f.output_dir, u>> \in unitdirs /\ CsvFilesIn(f.output_dir, u) # {} }

CombinedFile(dir, f, u) ==
    [dir |-> dir, folder |-> <<"UNIT", u>>, name |-> <<"Unit", u, <<"combined">>>>,
     ext |-> "csv", content |-> Concat(SortedFiles(CsvFilesIn(f.output_dir, u)))]

\* combine_data from the return of its first root.update(): create_temp_dir,
\* the loop over the units (which returns None at once when the run was
\* cancelled), up to the second root.update().
CombineFiles ==
    /\ stack # <<>>
    /\ Top.kind = "start" /\ Top.pc = "U3"
    /\ LET f == Top
           combined_dir == next_dir + 1
           g == [f EXCEPT !.mine = @ \cup {combined_dir}]
       IN  /\ next_dir' = combined_dir
           /\ temp_dirs' = Append(temp_dirs, combined_dir)
           /\ IF ~is_downloading
              THEN /\ disk' = disk \cup {combined_dir}
                   /\ stack' = SetTop([g EXCEPT !.pc = "quality"])
                   /\ UNCHANGED <<unitdirs, files, status_label>>
              ELSE /\ disk' = disk \cup {combined_dir}
                   /\ unitdirs' = unitdirs \cup
                         { <<combined_dir, u>> : u \in Combinable(f) }
                   /\ files' = files \cup
                         { CombinedFile(combined_dir, f, u) : u \in Combinable(f) }
                   /\ status_label' = <<"Data combination completed">>
                   /\ stack' = SetTop([g EXCEPT !.pc = "U4",
                                               !.combined_dir = combined_dir,
                                               !.stages = Stage(f, "combine")])
    /\ click' = NoClick /\ dialogs' = <<>>
    /\ UNCHANGED <<dq, qc, applied, unitvars, is_downloading, downloads, histvars,
                   download_btn, cancel_btn, progress_var>>

\* combine_data returns combined_dir; `output_dir = combined_dir`.
CombineReturn ==
    /\ stack # <<>>
    /\ Top.kind = "start" /\ Top.pc = "U4"
    /\ stack' = SetTop([Top EXCEPT !.pc = "quality", !.output_dir = Top.combined_dir])
    /\ click' = NoClick /\ dialogs' = <<>>
    /\ UNCHANGED <<dq, qc, applied, unitvars, is_downloading, temp_dirs, fsvars, uivars, histvars>>

\* `if self.quality_report_var.get():` and generate_quality_report up to its
\* root.update(); it returns at once when the run was cancelled.
QualityReport ==
    /\ stack # <<>>
    /\ Top.kind = "start" /\ Top.pc = "quality"
    /\ \E quality_report_var \in BOOLEAN :
          IF quality_report_var /\ is_downloading
          THEN /\ status_label' = <<"Generating quality report...">>
               /\ stack' = SetTop([Top EXCEPT !.pc = "U5", !.quality_report_var = TRUE])
          ELSE /\ stack' = SetTop([Top EXCEPT !.pc = "zip",
                                              !.quality_report_var = quality_report_var])
               /\ UNCHANGED status_label
    /\ click' = NoClick /\ dialogs' = <<>>
    /\ UNCHANGED <<dq, qc, applied, unitvars, is_downloading, temp_dirs, fsvars, histvars,
                   download_btn, cancel_btn, progress_var>>

\* month = date_str[:7] of a file name's last part: YYYY-MM of a date, and
\* "combine" of "combined".
MonthLabel(part) == IF Len(part) = 1 THEN <<"combine">> ELSE <<part[1], part[2]>>

ReportFile(dir, f, u) ==
    [dir |-> dir, folder |-> <<"quality_reports">>,
     name |-> <<"unit", u, f.data_type, "quality">>, ext |-> "xlsx",
     content |-> { MonthLabel(x.name[3]) : x \in CsvFilesIn(dir, u) }]

\* generate_quality_report after its root.update(): one workbook for each
\* selected unit whose folder exists under output_dir and holds CSV files.
GenerateReports ==
    /\ stack # <<>>
    /\ Top.kind = "start" /\ Top.pc = "U5"
    /\ LET f == Top
           reported == { u \in SeqToSet(f.selected) :
                           <<f.output_dir, u>> \in unitdirs
                           /\ CsvFilesIn(f.output_dir, u) # {} }
       IN  /\ files' = files \cup { ReportFile(f.output_dir, f, u) : u \in reported }
           /\ stack' = SetTop([f EXCEPT !.pc = "zip", !.stages = Stage(f, "quality")])
    /\ click' = NoClick /\ dialogs' = <<>>
    /\ UNCHANGED <<dq, qc, applied, unitvars, is_downloading, temp_dirs, disk, unitdirs, next_dir,
                   downloads, uivars, histvars>>

ZipName(f) ==
    <<"maple_west_data", <<f.range.start.y, f.range.start.m, f.range.start.d>>,
      <<f.range.end.y, f.range.end.m, f.range.end.d>>>>

\* Mutant of ZipMembers: the files of every temporary directory are added.
ZipEveryDir(dir) ==
    { [folder |-> x.folder, name |-> x.name, ext |-> x.ext, content |-> x.content] :
        x \in { y \in files : y.ext \in {"csv", "xlsx"} } }

\* The members create_zip_file adds: every .csv and .xlsx under output_dir.
ZipMembers(dir) ==
    { [folder |-> x.folder, name |-> x.name, ext |-> x.ext, content |-> x.content] :
        x \in { y \in files : y.dir = dir /\ y.ext \in {"csv", "xlsx"} } }

\* cleanup_temp_dirs up to its root.update()
TrackedDirs == SeqToSet(temp_dirs)

\* create_zip_file, shutil.move and, on the success path, cleanup_temp_dirs up
\* to its root.update().  create_zip_file returns None when output_dir does
\* not exist; shutil.move may fail.
CreateZip ==
    /\ stack # <<>>
    /\ Top.kind = "start" /\ Top.pc = "zip"
    /\ LET f == Top
           zip == [dir |-> f.output_dir, folder |-> <<>>, name |-> ZipName(f),
                   ext |-> "zip", content |-> ZipMembers(f.output_dir)]
       IN  IF f.output_dir \notin disk
           THEN /\ stack' = SetTop([f EXCEPT !.pc = "except",
                                            !.exc = "Failed to create zip file"])
                /\ status_label' = <<"Creating zip file...">>
                /\ UNCHANGED <<temp_dirs, fsvars>>
           ELSE \E moved \in BOOLEAN :
                  IF moved
                  THEN /\ downloads' = { z \in downloads : z.name # zip.name } \cup
                                         { [name |-> zip.name, members |-> zip.content] }
                       /\ disk' = RmDisk(TrackedDirs)
                       /\ unitdirs' = RmUnitdirs(TrackedDirs)
                       /\ files' = RmFiles(TrackedDirs)
                       /\ temp_dirs' = <<>>
                       /\ status_label' = <<"Cleaning up...">>
                       /\ stack' = SetTop([f EXCEPT !.pc = "U6",
                                                   !.stages = @ \o <<"zip", "move">>,
                                                   !.delivered = zip.content])
                       /\ UNCHANGED next_dir
                  ELSE /\ files' = WriteFile(files, zip)
                       /\ status_label' = <<"Creating zip file...">>
                       /\ stack' = SetTop([f EXCEPT !.pc = "except",
                                                   !.stages = Stage(f, "zip"),
                                                   !.exc = "shutil.move failed"])
                       /\ UNCHANGED <<temp_dirs, disk, unitdirs, next_dir, downloads>>
    /\ click' = NoClick /\ dialogs' = <<>>
    /\ UNCHANGED <<dq, qc, applied, unitvars, is_downloading, histvars,
                   download_btn, cancel_btn, progress_var>>

\* The success dialog, after cleanup_temp_dirs returned.
ReportSuccess ==
    /\ stack # <<>>
    /\ Top.kind = "start" /\ Top.pc = "U6"
    /\ click' = NoClick
    /\ dialogs' = << Dialog("info", "Success") >>
    /\ status_label' = <<"Ready">>
    /\ stack' = SetTop([Top EXCEPT !.pc = "finally", !.report = "Success",
                                   !.stages = Stage(Top, "success")])
    /\ UNCHANGED <<dq, qc, applied, unitvars, is_downloading, temp_dirs, fsvars,
                   histvars,
                   download_btn, cancel_btn, progress_var>>

\* `except Exception as e:` of start_download
ReportError ==
    /\ stack # <<>>
    /\ Top.kind = "start" /\ Top.pc = "except"
    /\ click' = NoClick
    /\ dialogs' = << Dialog("error", Top.exc) >>
    /\ status_label' = <<"Error occurred">>
    /\ stack' = SetTop([Top EXCEPT !.pc = "finally", !.report = Top.exc])
    /\ UNCHANGED <<dq, qc, applied, unitvars, is_downloading, temp_dirs, fsvars,
                   histvars,
                   download_btn, cancel_btn, progress_var>>

\* Mutant of Finally: is_downloading is left as it is.
FinallyKeepsFlag ==
    /\ stack # <<>>
    /\ Top.kind = "start" /\ Top.pc = "finally"
    /\ download_btn' = "normal"
    /\ cancel_btn' = FALSE
    /\ progress_var' = 0
    /\ disk' = RmDisk(TrackedDirs)
    /\ unitdirs' = RmUnitdirs(TrackedDirs)
    /\ files' = RmFiles(TrackedDirs)
    /\ temp_dirs' = <<>>
    /\ stack' = SetTop([Top EXCEPT !.pc = "U7"])
    /\ click' = NoClick /\ dialogs' = <<>>
    /\ UNCHANGED <<dq, qc, applied, unitvars, next_dir, downloads, histvars, status_label,
                   is_downloading>>

\* The finally clause up to the root.update() in cleanup_temp_dirs.
Finally ==
    /\ stack # <<>>
    /\ Top.kind = "start" /\ Top.pc = "finally"
    /\ is_downloading' = FALSE
    /\ download_btn' = "normal"
    /\ cancel_btn' = FALSE
    /\ progress_var' = 0
    /\ disk' = RmDisk(TrackedDirs)
    /\ unitdirs' = RmUnitdirs(TrackedDirs)
    /\ files' = RmFiles(TrackedDirs)
    /\ temp_dirs' = <<>>
    /\ stack' = SetTop([Top EXCEPT !.pc = "U7"])
    /\ click' = NoClick /\ dialogs' = <<>>
    /\ UNCHANGED <<dq, qc, applied, unitvars, next_dir, downloads, histvars, status_label>>

\* cleanup_temp_dirs returns; the finally clause's own root.update().
FinallyUpdate ==
    /\ stack # <<>>
    /\ Top.kind = "start" /\ Top.pc = "U7"
    /\ stack' = SetTop([Top EXCEPT !.pc = "U8"])
    /\ click' = NoClick /\ dialogs' = <<>>
    /\ UNCHANGED <<dq, qc, applied, unitvars, is_downloading, temp_dirs, fsvars, uivars, histvars>>

\* start_download returns.
StartReturn ==
    /\ stack # <<>>
    /\ Top.kind = "start" /\ Top.pc = "U8"
    /\ stack' = Pop
    /\ returned' =
          [run |-> Top.run, cancelled_at |-> Top.cancelled_at, report |-> Top.report,
           leaked |-> Top.mine \cap disk, log |-> Top.log,
           successful_downloads |-> Top.successful_downloads,
           total_downloads |-> Top.total_downloads, selected |-> Top.selected,
           dates |-> Top.dates, data_type |-> Top.data_type,
           combine_var |-> Top.combine_var,
           quality_report_var |-> Top.quality_report_var,
           stages |-> Top.stages, delivered |-> Top.delivered]
    /\ UNCHANGED <<dq, qc, applied, unitvars, is_downloading, temp_dirs, fsvars, uivars,
                   runs, budget>>
    /\ click' = NoClick /\ dialogs' = <<>>

(***************************************************************************)
(* cancel_download                                                         *)
(***************************************************************************)
\* The Cancel button is clicked during a root.update() of the running
\* start_download: cancel_download up to the root.update() in
\* cleanup_temp_dirs.
CancelDownload ==
    /\ stack # <<>>
    /\ Top.pc \in UpdatePcs
    /\ cancel_btn
    /\ is_downloading
    /\ click' = [NoClick EXCEPT !.kind = "cancel"]
    /\ is_downloading' = FALSE
    /\ status_label' = <<"Download cancelled">>
    /\ cancel_btn' = FALSE
    /\ download_btn' = "normal"
    /\ progress_var' = 0
    /\ disk' = RmDisk(TrackedDirs)
    /\ unitdirs' = RmUnitdirs(TrackedDirs)
    /\ files' = RmFiles(TrackedDirs)
    /\ temp_dirs' = <<>>
    /\ stack' = Append(SetTop([Top EXCEPT !.cancelled_at = Top.pc]), BlankFrame)
    /\ dialogs' = <<>>
    /\ UNCHANGED <<dq, qc, applied, unitvars, next_dir, downloads, returned, runs, budget>>

\* cleanup_temp_dirs returns; cancel_download's own root.update().
CancelUpdate ==
    /\ stack # <<>>
    /\ Top.kind = "cancel" /\ Top.pc = "CU1"
    /\ stack' = SetTop([Top EXCEPT !.pc = "CU2"])
    /\ click' = NoClick /\ dialogs' = <<>>
    /\ UNCHANGED <<dq, qc, applied, unitvars, is_downloading, temp_dirs, fsvars, uivars, histvars>>

\* cancel_download returns.
CancelReturn ==
    /\ stack # <<>>
    /\ Top.kind = "cancel" /\ Top.pc = "CU2"
    /\ stack' = Pop
    /\ click' = NoClick /\ dialogs' = <<>>
    /\ UNCHANGED <<dq, qc, applied, unitvars, is_downloading, temp_dirs, fsvars, uivars, histvars>>

Init ==
    /\ dq = NoQuery
    /\ InitUnits
    /\ InitGui
    /\ InitApplied
    /\ InitQuality

Next ==
    \/ StartDownload
    \/ LoopHead
    \/ DownloadPair
    \/ ProcessDownloaded
    \/ CombineFiles
    \/ CombineReturn
    \/ QualityReport
    \/ GenerateReports
    \/ CreateZip
    \/ ReportSuccess
    \/ ReportError
    \/ Finally
    \/ FinallyUpdate
    \/ StartReturn
    \/ CancelDownload
    \/ CancelUpdate
    \/ CancelReturn

Spec == Init /\ [][Next]_vars

(***************************************************************************)
(* QualityChecker (main.py): the counts of a channel column.               *)
(***************************************************************************)
\* channels[channel_name].min_value / max_value of the monitored channel
ChannelMin == 0
ChannelMax == 2

\* The values a column read by pd.read_csv holds:
\*   num      an int or float
\*   nan      an empty cell (NaN, a float)
\*   empty    the empty text
\*   numtext  text that float() accepts
\*   text     any other text
NaN == [kind |-> "nan", v |-> 0]
CellValues ==
    { [kind |-> k, v |-> n] : k \in {"num", "numtext"},
                              n \in (ChannelMin - 1)..(ChannelMax + 1) }
    \cup { NaN, [kind |-> "empty", v |-> 0], [kind |-> "text", v |-> 0] }

\* pd.isna(value) or value == ""
IsMissing(value) == value.kind \in {"nan", "empty"}

\* isinstance(value, (int, float))
IsNumber(value) == value.kind \in {"num", "nan"}

\* channel_info.min_value <= value <= channel_info.max_value; every
\* comparison with NaN is False
InRange(value) == value.kind = "num" /\ ChannelMin <= value.v /\ value.v <= ChannelMax

\* The body of `for value in values:` on counts <<good, missing, bad>>
CountValue(counts, value) ==
    LET \* the if / elif
        c1 == IF IsMissing(value) THEN [counts EXCEPT ![2] = @ + 1] ELSE counts
        converted == IF ~IsMissing(value) /\ ~IsNumber(value) /\ value.kind = "numtext"
                     THEN [kind |-> "num", v |-> value.v]
                     ELSE value
        skipped == ~IsMissing(value) /\ ~IsNumber(value) /\ value.kind # "numtext"
    IN  IF skipped THEN [counts EXCEPT ![2] = @ + 1]
        ELSE IF IsNumber(converted)
        THEN IF InRange(converted) THEN [c1 EXCEPT ![1] = @ + 1]
             ELSE [c1 EXCEPT ![3] = @ + 1]
        ELSE c1

RECURSIVE CountValues(_, _)
CountValues(counts, values) ==
    IF values = <<>> THEN counts
    ELSE CountValues(CountValue(counts, Head(values)), Tail(values))

\* What _check_data_quality returns: None, or [good, missing, bad]
NoCounts == [none |-> TRUE, counts |-> <<0, 0, 0>>]
Counts(c) == [none |-> FALSE, counts |-> c]

\* A channel column of a data file: found by the channel's regex or not, and
\* its values.
Column(found, values) == [found |-> found, values |-> values]

\* QualityChecker._check_data_quality(data, unit_config, channel_name)
_check_data_quality(monitored, column) ==
    IF ~monitored THEN NoCounts
    \* `values.empty`: no matching column, or no row
    ELSE IF ~column.found \/ column.values = <<>> THEN NoCounts
    ELSE Counts(CountValues(<<0, 0, 0>>, column.values))

\* The columns drawn: up to MaxValues values.
MaxValues == 3

SeqsUpTo(S, n) == UNION { [1..k -> S] : k \in 0..n }

InitCounts ==
    /\ \E monitored \in BOOLEAN, found \in BOOLEAN :
       \E values \in SeqsUpTo(CellValues, MaxValues) :
          qc = [op |-> "column", monitored |-> monitored,
                column |-> Column(found, values), result |-> NoCounts]
    /\ dq = NoQuery
    /\ InitUnits
    /\ InitGui
    /\ InitApplied

CheckDataQuality ==
    /\ qc.op = "column"
    /\ qc' = [qc EXCEPT !.op = "counted",
                        !.result = _check_data_quality(qc.monitored, qc.column)]
    /\ UNCHANGED <<dq, applied, unitvars, guivars>>

NextCounts == CheckDataQuality

SpecCounts == InitCounts /\ [][NextCounts]_vars

(***************************************************************************)
(* QualityChecker (main.py): the cell text and its shading.                *)
(***************************************************************************)
\* f"Good: {counts[0]}, Missing: {counts[1]}, Bad: {counts[2]}"
CellText(good, missing, bad) == <<"Good", good, "Missing", missing, "Bad", bad>>

\* QualityChecker._format_quality_result(counts)
_format_quality_result(c) ==
    IF c.none THEN CellText(0, 0, 0)
    ELSE CellText(c.counts[1], c.counts[2], c.counts[3])

\* parts = cell.value.split(', '); int(parts[k].split(': ')[1])
ParseCounts(text) == [good |-> text[2], missing |-> text[4], bad |-> text[6]]

\* A cell without a value (`if cell.value:` is false)
EmptyCell == <<>>

\* Mutant of ProblemOver: the threshold itself counts as over.
ProblemAtLeast(problem, total, pct) == problem * 100 >= pct * total

\* problem_percentage = (missing + bad) / total * 100; problem_percentage > pct.
\* The quotient is taken in floating point; for counts of this size it
\* compares with 5 and with 1 as the exact quotient does.
ProblemOver(problem, total, pct) == problem * 100 > pct * total

\* The fill _apply_conditional_formatting gives one data cell
CellFill(value) ==
    IF value = EmptyCell THEN "none"
    ELSE LET p == ParseCounts(value)
             total == p.good + p.missing + p.bad
         IN  IF total > 0
             THEN IF ProblemOver(p.missing + p.bad, total, 5) THEN "red"
                  ELSE IF ProblemOver(p.missing + p.bad, total, 1) THEN "yellow"
                  ELSE "none"
             ELSE "none"

\* QualityChecker._apply_conditional_formatting(worksheet): the fills of the
\* sheet, row by row; iter_rows(min_row=2) and row[1:] leave the header row
\* and the first column alone.
_apply_conditional_formatting(worksheet) ==
    [i \in 1..Len(worksheet) |->
        [j \in 1..Len(worksheet[i]) |->
            IF i >= 2 /\ j >= 2 THEN CellFill(worksheet[i][j]) ELSE "none"]]

\* The cells drawn: totals of 20 and 100 put 1 % and 5 % within reach.
CellChoices ==
    { CellText(g, m, b) : g \in {0, 19, 95, 99}, m \in {0, 1}, b \in {0, 4} }
    \cup { EmptyCell }

HeaderRow == <<"", "Main", "Spare">>

InitShade ==
    /\ \E c1 \in CellChoices, c2 \in CellChoices :
          qc = [op |-> "sheet",
                worksheet |-> << HeaderRow, << <<2024, 1>>, c1, c2 >> >>,
                fills |-> <<>>]
    /\ dq = NoQuery
    /\ InitUnits
    /\ InitGui
    /\ InitApplied

ApplyConditionalFormatting ==
    /\ qc.op = "sheet"
    /\ qc' = [qc EXCEPT !.op = "formatted",
                        !.fills = _apply_conditional_formatting(qc.worksheet)]
    /\ UNCHANGED <<dq, applied, unitvars, guivars>>

NextShade == ApplyConditionalFormatting

SpecShade == InitShade /\ [][NextShade]_vars

(***************************************************************************)
(* QualityChecker (main.py): process_data and update_quality_report over a *)
(* data tree <output_dir>/UNIT <n>/<file>.csv.                             *)
(***************************************************************************)
\* A behaviour of SpecReports has at most MaxFiles data files and MaxQOps
\* steps.
MaxFiles == 2
MaxQOps == 4

\* The last '_' part of a file name without ".csv": a date, a month, or the
\* word of a combined file.
Periods == { <<2024, 1, 15>>, <<2024, 1>>, <<2024, 2>>, <<"combined">> }

\* len(date_str): YYYY-MM-DD, YYYY-MM, "combined"
PeriodLen(period) ==
    IF Len(period) = 3 THEN 10 ELSE IF Len(period) = 2 THEN 7 ELSE 8

\* Unit_<n>_<period>.csv as the system writes it (tag ""), or a name that
\* also holds the word Minute or Hour.
NameTags == {"", "Minute"}

\* What pd.read_csv gives for a file: an error, or a table with or without
\* the channel's column.
FileContents ==
    { [readable |-> FALSE, column |-> Column(FALSE, <<>>)],
      [readable |-> TRUE, column |-> Column(FALSE, <<>>)],
      [readable |-> TRUE, column |-> Column(TRUE, <<NaN, NaN>>)],
      [readable |-> TRUE, column |-> Column(TRUE, << [kind |-> "num", v |-> 1] >>)] }

DataFiles ==
    [unit : ConfiguredUnits, tag : NameTags, period : Periods, content : FileContents]

\* `data_type in file`: the name holds the word
HoldsDataType(f, data_type) == f.tag = data_type

\* `month in file`: the name holds the label (only its period part can)
HoldsMonth(f, month) == MonthLabel(f.period) = month

\* What process_data returns: None, or the counts of the monitored channel
ResultsNone == [none |-> TRUE, main |-> <<0, 0, 0>>]
Results(c) == [none |-> FALSE, main |-> c]

AddCounts(a, b) == <<a[1] + b[1], a[2] + b[2], a[3] + b[3]>>

\* The loop of process_data over os.listdir(unit_path)
RECURSIVE SumFiles(_, _)
SumFiles(fs, acc) ==
    IF fs = {} THEN acc
    ELSE LET f == CHOOSE x \in fs : TRUE
             quality == IF f.content.readable
                        THEN _check_data_quality(TRUE, f.content.column)
                        ELSE NoCounts
         IN  SumFiles(fs \ {f},
                      IF quality.none THEN acc ELSE AddCounts(acc, quality.counts))

\* Mutant of process_data: the folder of the unit is not looked for.
ProcessDataAnyFolder(tree, unit_no, month) ==
    Results(SumFiles({ f \in tree.files : f.unit = unit_no /\ HoldsMonth(f, month) },
                     <<0, 0, 0>>))

\* QualityChecker.process_data(data_path, unit_no, month, data_type)
process_data(tree, unit_no, month) ==
    IF unit_no \notin tree.dirs THEN ResultsNone
    ELSE Results(SumFiles({ f \in tree.files : f.unit = unit_no /\ HoldsMonth(f, month) },
                          <<0, 0, 0>>))

\* A report workbook: absent, or its rows (label -> text of the channel's
\* cell) with their fills.
NoReport == [exists |-> FALSE, rows |-> <<>>, fills |-> <<>>]

\* The months update_quality_report takes from the file names
MonthsOf(tree, unit_no, data_type) ==
    { MonthLabel(f.period) :
        f \in { x \in tree.files : x.unit = unit_no /\ HoldsDataType(x, data_type)
                                   /\ PeriodLen(x.period) >= 7 } }

\* Mutant of NotInReport: every month of the file names is processed again.
AlwaysProcess(report, month) == TRUE

\* `month not in report_df.index`
NotInReport(report, month) == month \notin DOMAIN report.rows

\* One iteration of `for unit_no in self.units.keys()`
UpdateUnit(tree, report, unit_no, data_type) ==
    IF unit_no \notin tree.dirs THEN report
    ELSE LET new == { month \in MonthsOf(tree, unit_no, data_type) :
                        NotInReport(report, month)
                        /\ ~process_data(tree, unit_no, month).none }
             rows == [month \in DOMAIN report.rows \cup new |->
                        IF month \in new
                        THEN _format_quality_result(
                                Counts(process_data(tree, unit_no, month).main))
                        ELSE report.rows[month]]
         IN  IF new = {} THEN report
             ELSE [exists |-> TRUE, rows |-> rows,
                   fills |-> [month \in DOMAIN rows |-> CellFill(rows[month])]]

\* QualityChecker.update_quality_report(data_type): the reports afterwards
update_quality_report(tree, reports, data_type) ==
    [key \in DOMAIN reports |->
        IF key[2] = data_type
        THEN UpdateUnit(tree, reports[key], key[1], data_type)
        ELSE reports[key]]

NoCall == [call |-> "none", unit |-> 0, month |-> <<>>, data_type |-> "",
           result |-> ResultsNone, again |-> FALSE, before |-> <<>>]

InitReports ==
    /\ qc = [op |-> "tree", n |-> 0,
             tree |-> [dirs |-> {}, files |-> {}],
             reports |-> [key \in ConfiguredUnits \X DataTypes |-> NoReport],
             synced |-> {}, last |-> NoCall]
    /\ dq = NoQuery
    /\ InitUnits
    /\ InitGui
    /\ InitApplied

\* A data file appears under UNIT <n>.
WriteDataFile ==
    /\ qc.n < MaxQOps
    /\ Cardinality(qc.tree.files) < MaxFiles
    /\ \E f \in DataFiles :
          /\ \A g \in qc.tree.files : ~(g.unit = f.unit /\ g.tag = f.tag
                                        /\ g.period = f.period)
          /\ qc' = [qc EXCEPT !.n = @ + 1,
                              !.tree = [dirs |-> @.dirs \cup {f.unit},
                                        files |-> @.files \cup {f}],
                              !.synced = {},
                              !.last = [NoCall EXCEPT !.call = "write"]]
    /\ UNCHANGED <<dq, applied, unitvars, guivars>>

UpdateQualityReport ==
    /\ qc.n < MaxQOps
    /\ \E data_type \in DataTypes :
          qc' = [qc EXCEPT !.n = @ + 1,
                           !.reports = update_quality_report(qc.tree, qc.reports,
                                                             data_type),
                           !.synced = @ \cup {data_type},
                           !.last = [NoCall EXCEPT !.call = "update",
                                                   !.data_type = data_type,
                                                   !.again = data_type \in qc.synced,
                                                   !.before = qc.reports]]
    /\ UNCHANGED <<dq, applied, unitvars, guivars>>

ProcessData ==
    /\ qc.n < MaxQOps
    /\ \E unit_no \in ConfiguredUnits, month \in { MonthLabel(p) : p \in Periods } :
          qc' = [qc EXCEPT !.n = @ + 1,
                           !.last = [NoCall EXCEPT
                                        !.call = "process_data", !.unit = unit_no,
                                        !.month = month,
                                        !.result = process_data(qc.tree, unit_no, month)]]
    /\ UNCHANGED <<dq, applied, unitvars, guivars>>

NextReports == WriteDataFile \/ UpdateQualityReport \/ ProcessData

SpecReports == InitReports /\ [][NextReports]_vars

(***************************************************************************)
(* Claims about the quality reports (SpecReports)                          *)
(***************************************************************************)
LastUpdate == qc.op = "tree" /\ qc.last.call = "update"

\* The reports update_quality_report(data_type) works on
Updated == { key \in DOMAIN qc.reports : key[2] = qc.last.data_type }

RowsKept(before, after) ==
    \A month \in DOMAIN before.rows :
        month \in DOMAIN after.rows /\ after.rows[month] = before.rows[month]

\* C16: a run of update_quality_report keeps every row a report already had,
\* with its text, and a second run for the same data type on an unchanged
\* data tree adds no row and changes no report.
C16_ReportedRowsKept ==
    LastUpdate =>
        /\ \A key \in DOMAIN qc.reports : RowsKept(qc.last.before[key], qc.reports[key])
        /\ qc.last.again => qc.reports = qc.last.before

\* A second run on an unchanged tree whose first run had written a row.
C16_Witness ==
    /\ LastUpdate
    /\ qc.last.again
    /\ \E key \in Updated : qc.last.before[key].rows # <<>>

\* The files of a unit in the layout Unit_<n>_<date-or-period>.csv
SystemFiles(unit_no) ==
    { f \in qc.tree.files : f.unit = unit_no /\ f.tag = "" /\ Len(f.period) >= 2 }

\* C17: after update_quality_report, the report of every unit whose folder
\* holds files named Unit_<n>_<date-or-period>.csv exists and has a row for
\* the period of each of these files.
C17_SystemFilesReported ==
    LastUpdate =>
        \A key \in Updated :
            \A f \in SystemFiles(key[1]) :
                /\ qc.reports[key].exists
                /\ MonthLabel(f.period) \in DOMAIN qc.reports[key].rows

Matching == { f \in qc.tree.files : f.unit = qc.last.unit /\ HoldsMonth(f, qc.last.month) }

\* Every value of the channel's column is missing, and there is one.
OnlyMissing(f) ==
    /\ f.content.readable
    /\ f.content.column.found
    /\ f.content.column.values # <<>>
    /\ \A i \in DOMAIN f.content.column.values : IsMissing(f.content.column.values[i])

LastProcess == qc.op = "tree" /\ qc.last.call = "process_data"

\* C18: process_data returns None exactly when the folder of the unit does
\* not exist; with the folder and no matching file it returns zero counts;
\* with matching files that hold only missing values it returns counts with
\* missing > 0 and good = 0, which differ from the zero counts.
C18_NoFilesDiffersFromAllMissing ==
    LastProcess =>
        /\ qc.last.result.none <=> qc.last.unit \notin qc.tree.dirs
        /\ (qc.last.unit \in qc.tree.dirs /\ Matching = {})
              => qc.last.result = Results(<<0, 0, 0>>)
        /\ (Matching # {} /\ \A f \in Matching : OnlyMissing(f))
              => /\ ~qc.last.result.none
                 /\ qc.last.result.main[1] = 0
                 /\ qc.last.result.main[2] > 0
                 /\ qc.last.result # Results(<<0, 0, 0>>)

\* process_data has run on a period whose files hold only missing values.
C18_Witness ==
    /\ LastProcess
    /\ Matching # {}
    /\ \A f \in Matching : OnlyMissing(f)
    /\ qc.last.result.main[2] > 0

(***************************************************************************)
(* Claims about the quality counts (checked under SpecCounts).             *)
(***************************************************************************)
\* What the statement calls a numeric value, its bounds test, and the
\* positions of a column.
Numeric(value) == value.kind \in {"num", "numtext"}
WithinBounds(value) == ChannelMin <= value.v /\ value.v <= ChannelMax
Positions(values) == 1..Len(values)

\* C13: in the counts of a channel column every value is counted in exactly
\* one of good, missing and bad: good + missing + bad is the number of values.
C13_CountsPartitionValues ==
    (qc.op = "counted" /\ ~qc.result.none) =>
        qc.result.counts[1] + qc.result.counts[2] + qc.result.counts[3]
            = Len(qc.column.values)

\* C14: a numeric value v counts as good iff min <= v <= max, as bad iff it is
\* outside, and an empty cell or non-numeric text counts as missing and not
\* as bad.
C14_CountsByRange ==
    (qc.op = "counted" /\ ~qc.result.none) =>
        LET vs == qc.column.values
        IN  /\ qc.result.counts[1] =
                 Cardinality({ i \in Positions(vs) :
                                 Numeric(vs[i]) /\ WithinBounds(vs[i]) })
            /\ qc.result.counts[3] =
                 Cardinality({ i \in Positions(vs) :
                                 Numeric(vs[i]) /\ ~WithinBounds(vs[i]) })
            /\ qc.result.counts[2] =
                 Cardinality({ i \in Positions(vs) : ~Numeric(vs[i]) })

(***************************************************************************)
(* Claims about the shading (checked under SpecShade).                     *)
(***************************************************************************)
\* The exact shade of a cell with the given counts
ExpectedFill(good, missing, bad) ==
    LET total == good + missing + bad
        problem == missing + bad
    IN  IF total = 0 THEN "none"
        ELSE IF problem * 100 > 5 * total THEN "red"
        ELSE IF problem * 100 > total THEN "yellow"
        ELSE "none"

\* C15: a cell with counts (good, missing, bad) of total > 0 is shaded red iff
\* (missing + bad) * 100 > 5 * total, yellow iff the percentage is over 1 and
\* at most 5, and is left unshaded iff it is at most 1; a cell of total 0 is
\* unshaded; the header row and the label column are never shaded.
C15_ShadeByProblemShare ==
    qc.op = "formatted" =>
        \A i \in 1..Len(qc.worksheet) : \A j \in 1..Len(qc.worksheet[i]) :
            IF i = 1 \/ j = 1 THEN qc.fills[i][j] = "none"
            ELSE LET v == qc.worksheet[i][j]
                 IN  v # EmptyCell => qc.fills[i][j] = ExpectedFill(v[2], v[4], v[6])

\* C15 witness: a sheet was formatted that holds a cell at exactly 5 % (yellow)
\* next to a cell at exactly 1 % (unshaded).
C15_Witness ==
    /\ qc.op = "formatted"
    /\ qc.worksheet[2][2] = CellText(19, 1, 0) /\ qc.fills[2][2] = "yellow"
    /\ qc.worksheet[2][3] = CellText(99, 1, 0) /\ qc.fills[2][3] = "none"

(***************************************************************************)
(* Claims on Unit._download (checked under SpecUnit).                      *)
(***************************************************************************)
LastCall == calls[Len(calls)]

\* C1: after a download call in which neither the live export nor the Drive
\* fallback succeeded, the Unit's dataset is None, whatever it held before.
C1_FailedDownloadLeavesNone ==
    (Len(calls) > 0 /\ ~LastCall.succeeded) => units[LastCall.unit].data = None

\* C9: for an allow-listed device every failure of the live export (network
\* error, parse error, empty payload) is followed by a Drive attempt with the
\* device's folder identifier and the file name <serial>_<date>.csv.
C9_EveryFailureTriesDrive ==
    \A i \in 1..Len(calls) :
        (calls[i].unit \in DOMAIN google_paths /\ ~LiveOk(calls[i].live))
            => calls[i].attempts =
                   << [folder |-> google_paths[calls[i].unit],
                       filename |-> <<Serial(calls[i].unit), calls[i].date>>] >>

\* C10: a device outside the allow-list never attempts the Drive fallback,
\* and an allow-listed device never attempts it after a successful live
\* download.
C10_NoDriveOutsideAllowListOrAfterSuccess ==
    \A i \in 1..Len(calls) :
        /\ calls[i].unit \notin DOMAIN google_paths => calls[i].attempts = <<>>
        /\ LiveOk(calls[i].live) => calls[i].attempts = <<>>

\* C10 witness: a failed live fetch of a device outside the allow-list, a
\* successful live fetch of an allow-listed device, and (so that attempts are
\* seen to happen at all) a Drive attempt.
C10_Witness ==
    /\ \E i \in 1..Len(calls) :
          calls[i].unit \notin DOMAIN google_paths /\ calls[i].live = "network_error"
    /\ \E i \in 1..Len(calls) :
          calls[i].unit \in DOMAIN google_paths /\ LiveOk(calls[i].live)
    /\ \E i \in 1..Len(calls) : calls[i].attempts # <<>>

\* C11: every download whose live fetch fails (network error, parse error or
\* empty payload) adds one entry (device number, date, attempted URL) to the
\* failed-downloads record, for allow-listed and other devices alike.
C11_EveryFailedFetchRecorded ==
    \A i \in 1..Len(calls) :
        ~LiveOk(calls[i].live) =>
            /\ Len(calls[i].failed) = 1
            /\ calls[i].failed[1][1] = calls[i].unit
            /\ calls[i].failed[1][2] = calls[i].date

\* C12: download_minute_data and download_hour_data never let an exception
\* out: whichever of the live fetch, the parse, the Drive listing or the Drive
\* download fails, the call returns normally.
C12_DownloadNeverRaises ==
    \A i \in 1..Len(calls) : calls[i].raised = "none"

\* C12 witness: a parse error, a network error of a device without a Drive
\* folder, and a network error followed by a failing Drive path have all
\* been returned from.
C12_Witness ==
    /\ \E i \in 1..Len(calls) : calls[i].live = "parse_error"
    /\ \E i \in 1..Len(calls) :
          calls[i].live = "network_error" /\ ~InAllowList(calls[i].unit)
    /\ \E i \in 1..Len(calls) :
          calls[i].live = "network_error" /\ calls[i].drive = "error"

\* C19: check_quality returns the Unit's accumulated error list and warning
\* list on every path: without a dataset, for hour data (with or without
\* save_files) and for minute data.
C19_CheckQualityReturnsLists ==
    \A i \in 1..Len(checks) :
        /\ checks[i].ret.returned = "lists"
        /\ checks[i].ret.errors = checks[i].after.errors
        /\ checks[i].ret.warnings = checks[i].after.warnings

\* The download calls of a unit made before its i-th check_quality call.
DownloadsBefore(i) ==
    { k \in 1..checks[i].ncalls : calls[k].unit = checks[i].unit }

\* The state of the Unit's cycle when check_quality is called.
Prior(i) ==
    IF DownloadsBefore(i) = {} THEN "Idle"
    ELSE LET k == CHOOSE x \in DownloadsBefore(i) :
                      \A y \in DownloadsBefore(i) : y <= x
         IN  IF calls[k].succeeded THEN "Downloaded" ELSE "DownloadFailed"

IsNoOp(c) ==
    /\ c.ran = <<>> /\ c.logged = <<>> /\ c.written = {}
    /\ c.after = c.before
    /\ c.ret = ReturnLists(c.before)

\* C20: check_quality on a Unit without a dataset is a no-op (no rule or
\* channel check, no file, no log entry, lists unchanged and returned), so
\* checks run only after a successful download, never from Idle or from
\* DownloadFailed.
C20_CheckWithoutDatasetIsNoOp ==
    \A i \in 1..Len(checks) :
        /\ checks[i].before.data = None => IsNoOp(checks[i])
        /\ Prior(i) \in {"Idle", "DownloadFailed"} => IsNoOp(checks[i])

\* C21: on a Unit holding hour data check_quality calls check_missing_rows and
\* no other rule (no check_total_energy, no check_channel), with save_files
\* set or not, and it writes one file, named by the period, exactly when
\* save_files is set.
C21_HourChecksRowsOnly ==
    \A i \in 1..Len(checks) :
        (checks[i].before.datatype = "Hour" /\ checks[i].before.data # None) =>
            /\ checks[i].ran = << <<"check_missing_rows">> >>
            /\ checks[i].written =
                  IF checks[i].save_files
                  THEN { SavedFile(checks[i].after, checks[i].unit, <<"last_month">>) }
                  ELSE {}

\* Hour data has been checked with save_files set and with flagged rows.
C21_Witness ==
    \E i \in 1..Len(checks) :
        /\ checks[i].before.datatype = "Hour" /\ checks[i].before.data # None
        /\ checks[i].save_files
        /\ checks[i].rules.energy /\ checks[i].rules.channel
        /\ checks[i].written # {}

IsPrefix(a, b) == Len(a) <= Len(b) /\ \A i \in 1..Len(a) : a[i] = b[i]

\* C22: every download, load_data and check_quality call leaves each Unit's
\* error list and warning list with the lists before the call as prefixes: the
\* lists only grow.
C22_ListsOnlyGrow ==
    [][\A u \in ConfiguredUnits :
          /\ IsPrefix(units[u].errors, units'[u].errors)
          /\ IsPrefix(units[u].warnings, units'[u].warnings)]_vars

\* A Unit whose lists were added to by a download and by a later check, with
\* a load_data call made as well.
C22_Witness ==
    \E i \in 1..Len(checks) :
        /\ checks[i].before.errors # <<>>
        /\ Len(checks[i].after.errors) > Len(checks[i].before.errors)
        /\ checks[i].after.warnings # <<>>
        /\ units[checks[i].unit].errors = checks[i].after.errors
        /\ \E k \in 1..Len(loads) : loads[k].unit = checks[i].unit

(***************************************************************************)
(* Claims on check_space (checked under SpecSpace).                        *)
(***************************************************************************)
Alerted(probe) == probe.emails # <<>>

Informational(probe) ==
    probe.logged = << <<"GB left on the SD card", probe.unit, probe.space>> >>

Warned(probe) ==
    probe.logged = << <<"Less than 1GB of space available on the SD card",
                        probe.unit, probe.space>> >>

\* The free-space text is a number strictly between 1 and 40 (GB).
StrictlyBetween(space) ==
    space.kind = "decimal" /\ 10 < space.tenths /\ space.tenths < 400

\* C23: check_space sends the low-storage alert exactly when the free-space
\* value is not a number strictly between 1 and 40: a value in between is only
\* logged as informational; every other value (unparseable, <= 1, >= 40) logs
\* the warning and sends one alert.
C23_AlertUnlessBetween ==
    \A i \in 1..Len(probes) :
        IF StrictlyBetween(probes[i].space)
        THEN Informational(probes[i]) /\ ~Alerted(probes[i])
        ELSE Warned(probes[i]) /\ Len(probes[i].emails) = 1

\* check_space has seen a value of exactly 40 and a value just under it.
C23_Witness ==
    /\ \E i \in 1..Len(probes) :
          probes[i].space = [kind |-> "decimal", tenths |-> 400] /\ Alerted(probes[i])
    /\ \E i \in 1..Len(probes) :
          probes[i].space = [kind |-> "decimal", tenths |-> 399] /\ ~Alerted(probes[i])

\* Unparseable, or a number at or below 1 (GB).
LowOrUnparseable(space) ==
    \/ space.kind \in {"text", "nan", "-inf"}
    \/ space.kind = "decimal" /\ space.tenths <= 10

\* C24: a free-space value at or above 40 GB sends no low-storage alert, like
\* a healthy value: only values at or below 1 GB and unparseable values send
\* one.
C24_NoAlertAtOrAboveForty ==
    \A i \in 1..Len(probes) : Alerted(probes[i]) <=> LowOrUnparseable(probes[i].space)

\* The channels flagged monitored in the configuration, in its order.
IsMonitored(channel) == channel.monitored
MonitoredChannels == SelectSeq(UnitChannels, IsMonitored)

\* C32: on minute data check_quality runs check_missing_rows, then
\* check_total_energy, then one check_channel for each monitored channel and
\* none for an unmonitored one; every check_channel call is handed the bad
\* row indices that check_missing_rows returned in the same call.
C32_MinuteChecksInOrder ==
    \A i \in 1..Len(checks) :
        (checks[i].before.datatype = "Minute" /\ checks[i].before.data # None) =>
            LET ran == checks[i].ran
                bad == IF checks[i].rules.missing THEN {1} ELSE {}
            IN  /\ Len(ran) = 2 + Len(MonitoredChannels)
                /\ ran[1] = <<"check_missing_rows">>
                /\ ran[2] = <<"check_total_energy">>
                /\ \A k \in 1..Len(MonitoredChannels) :
                      ran[2 + k] = <<"check_channel", MonitoredChannels[k].name, bad>>

\* Minute data has been checked twice, once with bad rows found and once
\* with none, in a configuration that has an unmonitored channel.
C32_Witness ==
    /\ \E k \in 1..Len(UnitChannels) : ~UnitChannels[k].monitored
    /\ \E i, j \in 1..Len(checks) :
          /\ checks[i].before.datatype = "Minute" /\ checks[i].before.data # None
          /\ checks[j].before.datatype = "Minute" /\ checks[j].before.data # None
          /\ checks[i].rules.missing /\ ~checks[j].rules.missing
          /\ checks[i].ran[3][3] = {1} /\ checks[j].ran[3][3] = {}

(***************************************************************************)
(* Claims on check_status (SpecStatus).                                    *)
(***************************************************************************)
\* The page's indicator image (its first img) has a source containing "green".
HealthyPage(page) ==
    /\ page.imgs # <<>>
    /\ page.imgs[1].has_src
    /\ Contains(page.imgs[1].src, <<"g", "r", "e", "e", "n">>)

StatusSuccess(probe) ==
    /\ probe.raised = "none"
    /\ probe.logged = << <<"Dashbox Status OK", probe.unit>> >>
    /\ probe.emails = <<>>

StatusError(probe) ==
    /\ probe.raised = "none"
    /\ probe.logged = << <<"Dashbox Status Error", probe.unit>> >>
    /\ probe.emails = << <<"Maple West Dashbox Status Errors Detected", probe.unit>> >>

\* C31: for every status page check_status fetches, the call ends in one of
\* two outcomes: a healthy page (indicator source contains "green") is logged
\* as success with no alert; every other page is logged as an error and sends
\* one alert.
C31_StatusHealthyOrAlert ==
    \A i \in 1..Len(probes) :
        probes[i].page.fetched =>
            IF HealthyPage(probes[i].page)
            THEN StatusSuccess(probes[i])
            ELSE StatusError(probes[i])

\* The two outcomes on the pages that have an img with a src attribute first.
StatusDichotomyWithIndicator ==
    \A i \in 1..Len(probes) :
        (/\ probes[i].page.fetched
         /\ probes[i].page.imgs # <<>>
         /\ probes[i].page.imgs[1].has_src) =>
            IF HealthyPage(probes[i].page)
            THEN StatusSuccess(probes[i])
            ELSE StatusError(probes[i])

(***************************************************************************)
(* Claims on load_units (SpecLoad), on the row order (SpecOrder) and on    *)
(* the natural sort (SpecSort).                                            *)
(***************************************************************************)
JsonFiles(listing) == { i \in 1..Len(listing) : listing[i].ext = "json" }

DistinctUnitNos(listing) ==
    \A i, j \in JsonFiles(listing) :
        i # j => listing[i].unit_no # listing[j].unit_no

\* One record for each .json file, in ascending order of unit_no.
OnePerFileSorted(result, listing) ==
    /\ Len(result) = Cardinality(JsonFiles(listing))
    /\ { result[k].file : k \in 1..Len(result) } = JsonFiles(listing)
    /\ \A k \in 1..Len(result) : result[k].unit_no = listing[result[k].file].unit_no
    /\ \A k \in 1..(Len(result) - 1) : result[k].unit_no < result[k + 1].unit_no

\* C25: for a configuration directory whose N .json files have pairwise
\* distinct unit_no values, load_units (and _load_units of qualitychecker.py)
\* returns exactly N Unit records, one per file, in ascending order of unit_no.
C25_LoadUnitsSorted ==
    (applied.op = "load_units" /\ DistinctUnitNos(applied.listing)) =>
        /\ OnePerFileSorted(applied.gui, applied.listing)
        /\ OnePerFileSorted(applied.checker, applied.listing)

\* Three .json files listed in descending order of unit_no have been loaded.
C25_Witness ==
    /\ applied.op = "load_units"
    /\ Len(applied.listing) = 3
    /\ \A i \in 1..3 : applied.listing[i].ext = "json"
    /\ applied.listing[1].unit_no > applied.listing[2].unit_no
    /\ applied.listing[2].unit_no > applied.listing[3].unit_no
    /\ Len(applied.gui) = 3

\* The last .json file of the listing that declares the unit_no.
LastFileOf(listing, unit_no) ==
    CHOOSE i \in JsonFiles(listing) :
        /\ listing[i].unit_no = unit_no
        /\ \A j \in JsonFiles(listing) : listing[j].unit_no = unit_no => j <= i

DeclaredUnitNos(listing) == { listing[i].unit_no : i \in JsonFiles(listing) }

\* A list of records holds one record for each declared unit_no, that of the
\* file loaded last.
ListLastWins(result, listing) ==
    /\ \A k, l \in 1..Len(result) : k # l => result[k].unit_no # result[l].unit_no
    /\ { result[k].unit_no : k \in 1..Len(result) } = DeclaredUnitNos(listing)
    /\ \A k \in 1..Len(result) :
          result[k].file = LastFileOf(listing, result[k].unit_no)

\* The same for the dict of the quality checker.
DictLastWins(result, listing) ==
    /\ DOMAIN result = DeclaredUnitNos(listing)
    /\ \A u \in DOMAIN result :
          result[u].unit_no = u /\ result[u].file = LastFileOf(listing, u)

\* C33: when two configuration files declare the same unit_no, loading
\* yields one record for that unit_no, that of the file loaded last; no loaded
\* collection holds two records with the same unit_no.
C33_LastLoadedWins ==
    applied.op = "load_units" =>
        /\ ListLastWins(applied.gui, applied.listing)
        /\ DictLastWins(applied.configs, applied.listing)

\* The dict of QualityChecker._load_units alone.
CheckerDictLastWins ==
    applied.op = "load_units" => DictLastWins(applied.configs, applied.listing)

\* Two files declaring the same unit_no have been loaded into the dict.
CheckerDictDuplicateLoaded ==
    /\ applied.op = "load_units"
    /\ ~DistinctUnitNos(applied.listing)
    /\ DOMAIN applied.configs # {}

AscendingTimes(df) ==
    /\ \A i \in 1..Len(df) : df[i].ts # BadTime
    /\ \A i \in 1..(Len(df) - 1) : df[i].ts <= df[i + 1].ts

FirstTwoDescending(df) ==
    /\ Len(df) >= 2
    /\ df[1].ts # BadTime /\ df[2].ts # BadTime
    /\ df[1].ts > df[2].ts

\* C26: a table whose first two timestamps are descending comes out of the
\* row-order normalisation reversed as a whole and with ascending timestamps;
\* a table whose timestamps are already ascending comes out unchanged.
C26_FixOrderGivesAscending ==
    applied.op = "fix_order" =>
        /\ FirstTwoDescending(applied.df) =>
              /\ applied.fixed.df = Reversed(applied.df)
              /\ AscendingTimes(applied.fixed.df)
              /\ applied.combined = Reversed(applied.df)
              /\ AscendingTimes(applied.combined)
        /\ AscendingTimes(applied.df) =>
              /\ applied.fixed.df = applied.df
              /\ applied.combined = applied.df

\* C36: the row-order normalisation is idempotent on every table of
\* parseable timestamps, monotone or not: applied twice it gives the table it
\* gives applied once.
C36_FixOrderIdempotent ==
    (applied.op = "fix_order_again" /\ ColumnParses(applied.df)) =>
        /\ applied.again.df = applied.fixed.df
        /\ applied.combined_again = applied.combined

\* The timestamps ascend throughout, or descend throughout.
Monotone(df) ==
    \/ \A i \in 1..(Len(df) - 1) : df[i].ts <= df[i + 1].ts
    \/ \A i \in 1..(Len(df) - 1) : df[i].ts > df[i + 1].ts

\* The same on monotone tables only.
IdempotentOnMonotone ==
    (applied.op = "fix_order_again" /\ ColumnParses(applied.df) /\ Monotone(applied.df)) =>
        /\ applied.again.df = applied.fixed.df
        /\ applied.combined_again = applied.combined

\* (year, month, day) before (year, month, day)
DayBefore(a, b) ==
    \/ a[1] < b[1]
    \/ a[1] = b[1] /\ a[2] < b[2]
    \/ a[1] = b[1] /\ a[2] = b[2] /\ a[3] < b[3]

\* C27: the files of a folder are combined in natural order of their names:
\* the name of 2024-1-2 precedes the name of 2024-1-10, the sorted list holds
\* the listed files, each once, in the chronological order of their dates,
\* and the rows of the combined table follow that order.
C27_CombinedInNaturalOrder ==
    applied.op = "combined" =>
        /\ Len(applied.sorted) = Len(applied.csv_files)
        /\ { applied.sorted[k] : k \in 1..Len(applied.sorted) }
              = { applied.csv_files[k] : k \in 1..Len(applied.csv_files) }
        /\ \A i, j \in 1..Len(applied.sorted) :
              i < j => ~DayBefore(applied.sorted[j].date, applied.sorted[i].date)
        /\ Len(applied.combined_data) = 2 * Len(applied.csv_files)
        /\ \A i, j \in 1..Len(applied.combined_data) :
              i < j => ~DayBefore(applied.combined_data[j].date,
                                  applied.combined_data[i].date)

\* A folder listed with 2024-1-10 ahead of 2024-1-2 has been combined.
C27_Witness ==
    /\ applied.op = "combined"
    /\ \E i, j \in 1..Len(applied.csv_files) :
          /\ i < j
          /\ applied.csv_files[i].date = <<2024, 1, 10>>
          /\ applied.csv_files[j].date = <<2024, 1, 2>>
    /\ \E i, j \in 1..Len(applied.sorted) :
          /\ i < j
          /\ applied.sorted[i].date = <<2024, 1, 2>>
          /\ applied.sorted[j].date = <<2024, 1, 10>>

(***************************************************************************)
(* Claims on the date lists (checked under SpecDates).                     *)
(***************************************************************************)
DateSet(dates) == { dates[i] : i \in 1..Len(dates) }

Ascending(dates) ==
    \A i \in 1..(Len(dates) - 1) : DateLt(dates[i], dates[i + 1])

\* Every calendar day of the query's range: from the first day of the start
\* month through the last day of the end month.
DaysOfRange(q) ==
    { Date(y, m, d) : y \in q.sy..q.ey, m \in 1..12, d \in 1..31 } \cap
    { dt \in [y : q.sy..q.ey, m : 1..12, d : 1..31] :
        /\ dt.d <= DaysInMonth(dt.y, dt.m)
        /\ dt.y * 12 + dt.m >= q.sy * 12 + q.sm
        /\ dt.y * 12 + dt.m <= q.ey * 12 + q.em }

\* The first of every month of the query's range, start and end month included.
MonthsOfRange(q) == { dt \in DaysOfRange(q) : dt.d = 1 }

\* C6: for minute granularity the list holds exactly one entry per calendar
\* day of the validated range, first day of the start month through last day
\* of the end month, in ascending order.
C6_DailyDatesCoverRange ==
    (dq.pc = "built" /\ dq.q.data_type = "Minute")
        => /\ Ascending(dq.dates)
           /\ DateSet(dq.dates) = DaysOfRange(dq.q)

\* C7: for hour granularity the list holds exactly one first-of-month entry
\* for every month of the validated range, start month through end month; so
\* every range that passes validation yields at least one download.
C7_MonthlyDatesCoverRange ==
    (dq.pc = "built" /\ dq.q.data_type = "Hour")
        => /\ Ascending(dq.dates)
           /\ DateSet(dq.dates) = MonthsOfRange(dq.q)
           /\ Len(dq.dates) >= 1

\* What the builders return instead: the range without its last entry.
DailyDatesStopBeforeLastDay ==
    (dq.pc = "built" /\ dq.q.data_type = "Minute")
        => /\ Ascending(dq.dates)
           /\ DateSet(dq.dates) = DaysOfRange(dq.q) \ {dq.range.end}

MonthlyDatesStopBeforeLastMonth ==
    (dq.pc = "built" /\ dq.q.data_type = "Hour")
        => /\ Ascending(dq.dates)
           /\ DateSet(dq.dates) = MonthsOfRange(dq.q) \ {ReplaceDay1(dq.range.end)}

(***************************************************************************)
(* Claims about the desktop tool (checked under Spec).                     *)
(***************************************************************************)
\* The runs in sight: the start_download calls on the stack and the latest
\* one that returned.
RunLogs == { stack[i].log : i \in StartFrames } \cup { returned.log }

LogEntries == UNION { SeqToSet(l) : l \in RunLogs }

\* C2: in the download loop a file is written and counted in
\* successful_downloads for a (date, device) pair only if the download of
\* that very pair succeeded, live or through the fallback.
C2_FileOnlyForSucceededPair ==
    /\ \A e \in LogEntries : e.saved => e.succeeded
    /\ \A i \in StartFrames :
          stack[i].successful_downloads =
             Cardinality({ k \in 1..Len(stack[i].log) : stack[i].log[k].succeeded })

\* C3: once cancel_download has cleared is_downloading, no further download
\* call is started in that run: every download starts with the flag set.
C3_NoDownloadAfterCancel ==
    \A e \in LogEntries : e.flag

\* C4: when start_download returns, no temporary directory created during
\* the run still exists on disk.
C4_NoTempDirLeftBehind ==
    returned # NoReturn => returned.leaked = {}

\* C5: a run cancelled at any of its event-processing points is reported as
\* a cancellation, never as a failure of a later stage or as a success.
C5_CancelledRunReportsCancellation ==
    (returned # NoReturn /\ returned.cancelled_at # "")
        => returned.report = "Download cancelled by user"

\* The end month of the comboboxes lies before the start month.
EndPrecedesStart(q) ==
    /\ q.sm \in 1..12 /\ q.em \in 1..12
    /\ q.ey * 12 + q.em < q.sy * 12 + q.sm

RejectedInput(c) ==
    c.kind = "start" /\ (c.selected = <<>> \/ EndPrecedesStart(c.q))

\* C8: a Start click with no device selected, or with an end date before the
\* start date, shows an error dialog and returns before any download starts,
\* leaving the tool unchanged: is_downloading stays false, no temporary
\* directory is created, no Unit is touched.
C8_RejectedStartChangesNothing ==
    [][ RejectedInput(click') =>
          /\ dialogs' # <<>>
          /\ \A i \in 1..Len(dialogs') : dialogs'[i].kind = "error"
          /\ ~is_downloading /\ ~is_downloading'
          /\ UNCHANGED <<temp_dirs, stack, fsvars, uivars, unitvars, histvars>> ]_vars

\* C8 witness: after a run with a failed download, Start was clicked with
\* devices selected and the end month before the start month, and the error
\* dialog is up.
C8_Witness_EndBeforeStart ==
    /\ click.kind = "start" /\ click.selected # <<>> /\ EndPrecedesStart(click.q)
    /\ runs = 1 /\ failed_downloads # <<>>
    /\ dialogs # <<>>

\* The names of the members of an archive, without their contents.
MemberNames(members) ==
    { [folder |-> x.folder, name |-> x.name, ext |-> x.ext] : x \in members }

\* One combined CSV and one quality workbook for each of the two devices.
FourFiles ==
    UNION { { [folder |-> <<"UNIT", u>>, name |-> <<"Unit", u, <<"combined">>>>,
               ext |-> "csv"],
              [folder |-> <<"quality_reports">>,
               name |-> <<"unit", u, "Minute", "quality">>, ext |-> "xlsx"] } :
            u \in {77, 2820} }

\* A run of both devices at minute granularity, combine and quality report
\* on, not cancelled, every download succeeded, the archive delivered.
TwoDeviceRun(run) ==
    /\ run.selected = <<77, 2820>> /\ run.data_type = "Minute"
    /\ run.combine_var /\ run.quality_report_var
    /\ run.cancelled_at = ""
    /\ Len(run.log) = run.total_downloads
    /\ \A k \in 1..Len(run.log) : run.log[k].succeeded
    /\ run.report = "Success"

StageRank(name) ==
    CASE name = "download" -> 1
      [] name = "combine" -> 2
      [] name = "quality" -> 3
      [] name = "zip" -> 4
      [] name = "move" -> 5
      [] name = "success" -> 6

StagesInOrder(run) ==
    \A i, j \in 1..Len(run.stages) :
        i < j => StageRank(run.stages[i]) < StageRank(run.stages[j])

\* Success is reported after the archive was created and moved.
SuccessAfterMove(run) ==
    run.report = "Success" =>
        \E i, j, k \in 1..Len(run.stages) :
            /\ i < j /\ j < k
            /\ run.stages[i] = "zip" /\ run.stages[j] = "move"
            /\ run.stages[k] = "success"

\* Success is reported only when a download of the run succeeded.
SuccessHasDownload(run) ==
    run.report = "Success" => \E k \in 1..Len(run.log) : run.log[k].succeeded

\* C29: the stages of a run occur in the order download, combine, quality
\* report, zip, move; success is reported only in a run in which at least one
\* download succeeded, and only after the archive was created and moved.
C29_StagesInOrderSuccessEarned ==
    /\ \A i \in StartFrames :
          /\ StagesInOrder(stack[i])
          /\ SuccessAfterMove(stack[i])
          /\ SuccessHasDownload(stack[i])
    /\ StagesInOrder(returned)
    /\ SuccessAfterMove(returned)
    /\ SuccessHasDownload(returned)

\* The k-th (date, device) pair of a run: dates outside, devices inside.
PairDate(run, k) == run.dates[((k - 1) \div Len(run.selected)) + 1]
PairUnit(run, k) == run.selected[((k - 1) % Len(run.selected)) + 1]

\* The pairs attempted so far are the first pairs of the job, in order.
AttemptedInOrder(run) ==
    /\ Len(run.log) <= Len(run.dates) * Len(run.selected)
    /\ \A k \in 1..Len(run.log) :
          /\ run.log[k].date = PairDate(run, k)
          /\ run.log[k].unit = PairUnit(run, k)
    /\ \A j, k \in 1..Len(run.log) :
          (j < k /\ run.log[j].unit = run.log[k].unit)
             => NaturalLt(run.log[j].date, run.log[k].date)

\* C30: the exception of one (date, device) pair is caught and the batch goes
\* on: a run that is not cancelled attempts every pair of the job exactly
\* once, the dates of each device in ascending order, one download at a time.
C30_EveryPairAttemptedOnce ==
    /\ \A i \in StartFrames :
          stack[i].cancelled_at = "" => AttemptedInOrder(stack[i])
    /\ (returned.run # 0 /\ returned.cancelled_at = "") =>
          /\ AttemptedInOrder(returned)
          /\ Len(returned.log) = Len(returned.dates) * Len(returned.selected)

\* A run that was not cancelled has returned after two pairs, the first of
\* which failed to download and both of which ended in a caught exception.
C30_Witness ==
    /\ returned.run # 0 /\ returned.cancelled_at = ""
    /\ Len(returned.log) = 2
    /\ ~returned.log[1].succeeded
    /\ \A k \in 1..2 : returned.log[k].caught = "TypeError"

\* The idle state of the tool.
Idle ==
    /\ is_downloading = FALSE
    /\ progress_var = 0
    /\ download_btn = "normal"
    /\ cancel_btn = FALSE
    /\ temp_dirs = <<>>

\* start_download is about to return: its finally clause is through.
StartReturning == stack # <<>> /\ Top.kind = "start" /\ Top.pc = "U8"

\* C34: when start_download returns from a run that passed validation, on
\* every path (success, error, no data, cancellation), is_downloading is
\* false, the progress indicator is 0, the start button is enabled, the cancel
\* button is hidden and the list of tracked directories is empty.
C34_IdleWhenStartReturns ==
    [][(StartReturning /\ stack' = Pop) => Idle']_vars

\* A cancelled run has returned, after a run that reported success, and the
\* tool is idle.
C34_Witness ==
    /\ stack = <<>>
    /\ returned.run = 2 /\ returned.cancelled_at # ""
    /\ downloads # {}
    /\ Idle

\* C35: at most one download run is active at any time: while a
\* start_download call is in progress the start button is disabled, and no
\* second start_download is entered through event processing, also after
\* Cancel was pressed.
C35_OneRunAtATime ==
    /\ StartFrames # {} => download_btn = "disabled"
    /\ Cardinality(StartFrames) <= 1

\* No start_download call is entered while another one is in progress.
NoNestedStart == Cardinality(StartFrames) <= 1

\* The same, short of a Cancel click and of the finally clause: while a run
\* that was not cancelled is before its finally clause, the start button is
\* disabled.
DisabledWhileUncancelled ==
    \A i \in StartFrames :
        (/\ stack[i].cancelled_at = ""
         /\ stack[i].pc \notin {"finally", "U7", "U8"}
         /\ \A j \in StartFrames : j <= i)
            => download_btn = "disabled"

\* A row label that is a YYYY-MM period: a year and a month.
IsYearMonth(label) == Len(label) = 2

\* The YYYY-MM labels the names of a set of data files give.
YearMonthsOf(periods) ==
    { <<part[1], part[2]>> : part \in { x \in periods : Len(x) >= 2 } }

\* C37: every row label of a quality report the desktop tool writes is a
\* 7-character YYYY-MM period label taken from the name of a data file of the
\* device, for per-date files and for combined files alike.
C37_ReportLabelsAreYearMonth ==
    \A x \in files :
        x.ext = "xlsx" =>
            /\ \A label \in x.content : IsYearMonth(label)
            /\ x.content \subseteq
                  YearMonthsOf({ y.name[3] : y \in CsvFilesIn(x.dir, x.name[2]) })

\* The same for the reports update_quality_report writes.
UpdatedLabelsAreYearMonth ==
    qc.op = "tree" =>
        \A key \in DOMAIN qc.reports :
            \A label \in DOMAIN qc.reports[key].rows : IsYearMonth(label)

\* The reports of the desktop tool written from per-date files only.
PerDateLabelsAreYearMonth ==
    \A x \in files :
        (x.ext = "xlsx"
         /\ \A y \in CsvFilesIn(x.dir, x.name[2]) : Len(y.name[3]) >= 2) =>
            /\ x.content # {}
            /\ \A label \in x.content : IsYearMonth(label)
            /\ x.content \subseteq
                  YearMonthsOf({ y.name[3] : y \in CsvFilesIn(x.dir, x.name[2]) })

====
